---- MODULE Spec2Model ----
(***************************************************************************)
(* A model of dlms-cosem-rs: the M-Bus reassembly loop, the control        *)
(* information byte, the APDU and Data decoders and the Dlms pipeline.     *)
(*                                                                         *)
(* Bytes are integers 0..255 and byte strings are sequences of them.       *)
(* Every parser returns a nom-style result record                          *)
(*   [kind, rest, val, needed, err]                                        *)
(* with kind one of "Ok", "Incomplete", "Error", "Failure" and "Panic"     *)
(* (the process aborts: unimplemented!, an arithmetic overflow check).     *)
(* needed = 0 stands for nom::Needed::Unknown.                             *)
(***************************************************************************)
EXTENDS Integers, Sequences, FiniteSets, TLC

VARIABLES
  input,           \* the caller's telegram buffer (&[Telegram])
  called,          \* the telegram sequence the last call was made on
  result,          \* what the last call returned
  api,             \* which entry point produced result
  incompleteAt,    \* length of the buffer a call last found Incomplete, -1 if none
  resumedFrom,     \* incompleteAt as it was when the last call was made
  key,             \* Dlms.key
  overflow_checks, \* whether the build checks integer overflow (debug) or wraps
  bytes,           \* input byte string of a byte-level decoder call
  out,             \* what that decoder returned
  op               \* which decoder the bytes are for

vars ==
  <<input, called, result, api, incompleteAt, resumedFrom, key, overflow_checks,
    bytes, out, op>>

(***************************************************************************)
(* Bounds of the model.                                                    *)
(***************************************************************************)
MaxTelegrams == 3

(***************************************************************************)
(* nom results and Data values.  A result is told from another by its kind *)
(* first, a Data value by its variant t first.                             *)
(***************************************************************************)
IsErr(r) == r.kind \in {"Error", "Failure"}

Data(t, v) == [t |-> t, v |-> v]

NomOk(rest, val) ==
  [err |-> "-",
   kind |-> "Ok",
   needed |-> 0,
   rest |-> rest,
   val |-> val]

NomIncomplete(n) ==
  [err |-> "-",
   kind |-> "Incomplete",
   needed |-> n,
   rest |-> <<>>,
   val |-> <<>>]

NomError(e) ==
  [err |-> e,
   kind |-> "Error",
   needed |-> 0,
   rest |-> <<>>,
   val |-> <<>>]

NomFailure(e) ==
  [err |-> e,
   kind |-> "Failure",
   needed |-> 0,
   rest |-> <<>>,
   val |-> <<>>]

Panic ==
  [err |-> "-",
   kind |-> "Panic",
   needed |-> 0,
   rest |-> <<>>,
   val |-> <<>>]

NoResult ==
  [err |-> "-",
   kind |-> "None",
   needed |-> 0,
   rest |-> <<>>,
   val |-> <<>>]

(***************************************************************************)
(* Bit operations on bytes.                                                *)
(***************************************************************************)
RECURSIVE BitAnd(_, _)
BitAnd(a, b) ==
  IF a = 0 \/ b = 0 THEN 0
  ELSE 2 * BitAnd(a \div 2, b \div 2) + (IF a % 2 = 1 /\ b % 2 = 1 THEN 1 ELSE 0)

Drop(s, n) == SubSeq(s, n + 1, Len(s))

Take(s, n) == SubSeq(s, 1, n)

(***************************************************************************)
(* control_information.rs                                                  *)
(***************************************************************************)
CISegmented(segment, last_segment) ==
  [direction |-> "-",
   err |-> 0,
   header |-> "-",
   last_segment |-> last_segment,
   ok |-> TRUE,
   segment |-> segment,
   variant |-> "Segmented"]

CIUnsegmented(header, direction) ==
  [direction |-> direction,
   err |-> 0,
   header |-> header,
   last_segment |-> FALSE,
   ok |-> TRUE,
   segment |-> 0,
   variant |-> "Unsegmented"]

CIErr(b) ==
  [direction |-> "-",
   err |-> b,
   header |-> "-",
   last_segment |-> FALSE,
   ok |-> FALSE,
   segment |-> 0,
   variant |-> "-"]

\* mutant: the Segmented range is one bit too wide (0x00..=0x2f)
ControlInformationTryFrom_WideRange(control_information) ==
  IF control_information \in 0..47
    THEN CISegmented(BitAnd(control_information, 15),
                     BitAnd(control_information, 16) # 0)
  ELSE IF control_information = 96  THEN CIUnsegmented("Long", "MasterSlave")
  ELSE IF control_information = 97  THEN CIUnsegmented("Short", "MasterSlave")
  ELSE IF control_information = 124 THEN CIUnsegmented("Long", "SlaveMaster")
  ELSE IF control_information = 125 THEN CIUnsegmented("Short", "SlaveMaster")
  ELSE CIErr(control_information)

\* mutant: the last-segment flag read from bit 5 instead of bit 4
ControlInformationTryFrom_WrongBit(control_information) ==
  IF control_information \in 0..31
    THEN CISegmented(BitAnd(control_information, 15),
                     BitAnd(control_information, 32) # 0)
  ELSE IF control_information = 96  THEN CIUnsegmented("Long", "MasterSlave")
  ELSE IF control_information = 97  THEN CIUnsegmented("Short", "MasterSlave")
  ELSE IF control_information = 124 THEN CIUnsegmented("Long", "SlaveMaster")
  ELSE IF control_information = 125 THEN CIUnsegmented("Short", "SlaveMaster")
  ELSE CIErr(control_information)

ControlInformationTryFrom(control_information) ==
  IF control_information \in 0..31
    THEN CISegmented(BitAnd(control_information, 15),
                     BitAnd(control_information, 16) # 0)
  ELSE IF control_information = 96  THEN CIUnsegmented("Long", "MasterSlave")
  ELSE IF control_information = 97  THEN CIUnsegmented("Short", "MasterSlave")
  ELSE IF control_information = 124 THEN CIUnsegmented("Long", "SlaveMaster")
  ELSE IF control_information = 125 THEN CIUnsegmented("Short", "SlaveMaster")
  ELSE CIErr(control_information)

(***************************************************************************)
(* nom::number::complete::u8 in a tuple of n parsers, with the crate's     *)
(* Error as error type: from_error_kind gives Error::InvalidFormat.        *)
(***************************************************************************)
TupleU8Complete(data, n) ==
  IF Len(data) < n THEN NomError("InvalidFormat")
  ELSE NomOk(Drop(data, n), Take(data, n))

(***************************************************************************)
(* mbus.rs: MBusDataLinkLayer::parse_mbus.  MBusHeader is the match on the *)
(* control information of one telegram: the sequence check and the         *)
(* transport header strip.  It gives the user data left, the last_segment  *)
(* flag and the segment counter, or the error the call returns.            *)
(***************************************************************************)
\* mutant: the expected segment is not advanced
WrappingAdd1_Stuck(current_segment) == current_segment

\* mutant: the expected segment wraps with the segment field, at 16
WrappingAdd1_Mod16(current_segment) == (current_segment + 1) % 16

WrappingAdd1(current_segment) == (current_segment + 1) % 256

\* mutant: the three extra bytes of a Long header are not stripped
MBusHeader_NoLongHeader(user_data, ci, current_segment) ==
  IF ci.variant = "Segmented"
    THEN IF current_segment # ci.segment
           THEN NomFailure("ChecksumMismatch")
           ELSE NomOk(user_data, [current_segment |-> WrappingAdd1(current_segment),
                                  last_segment |-> ci.last_segment])
    ELSE LET Stripped(acc) ==
               IF acc.kind # "Ok" THEN acc
               ELSE NomOk(acc.rest, [current_segment |-> current_segment,
                                     last_segment |-> TRUE])
         IN Stripped(TupleU8Complete(user_data, 3))

MBusHeader(user_data, ci, current_segment) ==
  IF ci.variant = "Segmented"
    THEN IF current_segment # ci.segment
           THEN NomFailure("ChecksumMismatch")
           ELSE NomOk(user_data, [current_segment |-> WrappingAdd1(current_segment),
                                  last_segment |-> ci.last_segment])
    ELSE LET Stripped(acc) ==
               IF acc.kind # "Ok" THEN acc
               ELSE NomOk(acc.rest, [current_segment |-> current_segment,
                                     last_segment |-> TRUE])
             LongStripped(ala) ==
               IF ala.kind # "Ok" THEN ala
               ELSE Stripped(TupleU8Complete(ala.rest, 3))
         IN LongStripped(IF ci.header = "Long"
                           THEN TupleU8Complete(user_data, 3)
                           ELSE NomOk(user_data, <<>>))

RECURSIVE MBusLoop(_, _, _, _, _)
MBusLoop(telegrams, i, payload, current_segment, len) ==
  IF i > Len(telegrams) THEN NomIncomplete(0)
  ELSE IF telegrams[i].frame # "LongFrame" THEN NomFailure("InvalidFormat")
  ELSE
    LET user_data == telegrams[i].user_data
        Sap(hdr, sap) ==
          IF sap.kind # "Ok" THEN sap
          ELSE IF hdr.val.last_segment
            THEN NomOk(Drop(telegrams, len + 1), payload \o sap.rest)
            ELSE MBusLoop(telegrams, i + 1, payload \o sap.rest,
                          hdr.val.current_segment, len + 1)
        Header(hdr) ==
          IF hdr.kind # "Ok" THEN hdr
          ELSE Sap(hdr, TupleU8Complete(hdr.rest, 2))
        Match(ci) ==
          IF ~ci.ok THEN NomFailure("InvalidFormat")
          ELSE Header(MBusHeader(user_data, ci, current_segment))
    IN Match(ControlInformationTryFrom(telegrams[i].control_information))

\* mutant: the expected segment starts at 1
MBusParseMbus_StartAt1(telegrams) == MBusLoop(telegrams, 1, <<>>, 1, 0)

\* mutant: every telegram of the input is looked at before the loop
MBusParseMbus_WholeInput(telegrams) ==
  IF \E j \in 1..Len(telegrams) : telegrams[j].frame # "LongFrame"
    THEN NomFailure("InvalidFormat")
    ELSE MBusLoop(telegrams, 1, <<>>, 0, 0)

MBusParseMbus(telegrams) == MBusLoop(telegrams, 1, <<>>, 0, 0)

(***************************************************************************)
(* nom::number::streaming readers.  A reader of n bytes on a shorter input *)
(* returns Incomplete(Needed::new(n - len)).  A tuple of readers runs them *)
(* in order and returns the first failure.                                 *)
(***************************************************************************)
StreamTake(i, n) ==
  IF Len(i) < n THEN NomIncomplete(n - Len(i))
  ELSE NomOk(Drop(i, n), Take(i, n))

RECURSIVE StreamFields(_, _, _)
StreamFields(i, widths, acc) ==
  IF widths = <<>> THEN NomOk(i, acc)
  ELSE LET Field(r) ==
             IF r.kind # "Ok" THEN r
             ELSE StreamFields(r.rest, Tail(widths), Append(acc, r.val))
       IN Field(StreamTake(i, Head(widths)))

None == <<>>

Some(x) == <<x>>

\* big-endian conversions; values wider than 31 bits are kept as their
\* 16-bit words, most significant first
U16(b) == b[1] * 256 + b[2]

I8(x) == IF x >= 128 THEN x - 256 ELSE x

I16(b) == IF U16(b) >= 32768 THEN U16(b) - 65536 ELSE U16(b)

I32(b) == I16(<<b[1], b[2]>>) * 65536 + U16(<<b[3], b[4]>>)

Words(b) == [k \in 1..(Len(b) \div 2) |-> b[2 * k - 1] * 256 + b[2 * k]]

(***************************************************************************)
(* data.rs: Date, Time, DateTime                                           *)
(***************************************************************************)
DateParse(i) ==
  LET Fields(r) ==
        IF r.kind # "Ok" THEN r
        ELSE NomOk(r.rest, [day_of_month |-> r.val[3][1],
                            day_of_week |-> r.val[4][1],
                            month |-> r.val[2][1],
                            year |-> U16(r.val[1])])
  IN Fields(StreamFields(i, <<2, 1, 1, 1>>, <<>>))

\* one arm of the matches in Time::parse: <<>> is the `_ => fail` arm
TimeField(b, max) ==
  IF b = 255 THEN [ok |-> TRUE, v |-> None]
  ELSE IF b \in 0..max THEN [ok |-> TRUE, v |-> Some(b)]
  ELSE [ok |-> FALSE, v |-> None]

\* mutant: the upper bound of a field is its sentinel-free byte range
TimeParse_NoRange(i) ==
  LET Match(rest, hour, minute, second, hundredth) ==
        IF ~hour.ok \/ ~minute.ok \/ ~second.ok \/ ~hundredth.ok
          THEN NomError("Fail")
          ELSE NomOk(rest, [hour |-> hour.v,
                            hundredth |-> hundredth.v,
                            minute |-> minute.v,
                            second |-> second.v])
      Fields(r) ==
        IF r.kind # "Ok" THEN r
        ELSE Match(r.rest, TimeField(r.val[1][1], 254), TimeField(r.val[2][1], 59),
                   TimeField(r.val[3][1], 59), TimeField(r.val[4][1], 99))
  IN Fields(StreamFields(i, <<1, 1, 1, 1>>, <<>>))

TimeParse(i) ==
  LET Match(rest, hour, minute, second, hundredth) ==
        IF ~hour.ok \/ ~minute.ok \/ ~second.ok \/ ~hundredth.ok
          THEN NomError("Fail")
          ELSE NomOk(rest, [hour |-> hour.v,
                            hundredth |-> hundredth.v,
                            minute |-> minute.v,
                            second |-> second.v])
      Fields(r) ==
        IF r.kind # "Ok" THEN r
        ELSE Match(r.rest, TimeField(r.val[1][1], 23), TimeField(r.val[2][1], 59),
                   TimeField(r.val[3][1], 59), TimeField(r.val[4][1], 99))
  IN Fields(StreamFields(i, <<1, 1, 1, 1>>, <<>>))

DateTimeParse(i) ==
  LET ClockStatus(date, time, off, cs) ==
        IF cs.kind # "Ok" THEN cs
        ELSE NomOk(cs.rest,
                   [clock_status |-> IF cs.val[1] # 255 THEN Some(cs.val[1]) ELSE None,
                    date |-> date.val,
                    offset_minutes |-> IF I16(off.val) # -32768
                                         THEN Some(I16(off.val)) ELSE None,
                    time |-> time.val])
      OffsetMinutes(date, time, off) ==
        IF off.kind # "Ok" THEN off
        ELSE ClockStatus(date, time, off, StreamTake(off.rest, 1))
      TimeOfDay(date, time) ==
        IF time.kind # "Ok" THEN time
        ELSE OffsetMinutes(date, time, StreamTake(time.rest, 2))
      DateOfYear(date) ==
        IF date.kind # "Ok" THEN date
        ELSE TimeOfDay(date, TimeParse(date.rest))
  IN DateOfYear(DateParse(i))

(***************************************************************************)
(* data.rs: DataType::try_from and Data::parse.  A Data value is a record  *)
(* [t |-> variant, v |-> payload].                                         *)
(***************************************************************************)
DataTypeTryFrom(dt) ==
  CASE dt = 0  -> "Null"
    [] dt = 1  -> "Array"
    [] dt = 2  -> "Structure"
    [] dt = 3  -> "Bool"
    [] dt = 4  -> "BitString"
    [] dt = 5  -> "DoubleLong"
    [] dt = 6  -> "DoubleLongUnsigned"
    [] dt = 9  -> "OctetString"
    [] dt = 10 -> "VisibleString"
    [] dt = 12 -> "Utf8String"
    [] dt = 13 -> "BinaryCodedDecimal"
    [] dt = 15 -> "Integer"
    [] dt = 16 -> "Long"
    [] dt = 17 -> "Unsigned"
    [] dt = 18 -> "LongUnsigned"
    [] dt = 19 -> "CompactArray"
    [] dt = 20 -> "Long64"
    [] dt = 21 -> "Long64Unsigned"
    [] dt = 22 -> "Enum"
    [] dt = 23 -> "Float32"
    [] dt = 24 -> "Float64"
    [] dt = 25 -> "DateTime"
    [] dt = 26 -> "Date"
    [] dt = 27 -> "Time"
    [] OTHER   -> "Err"

\* a float is kept as its IEEE-754 bits when it is read from the wire, and
\* as the operation that made it when it comes out of the scale! macro:
\* (value as float) * (factor as float), or / when divide
FloatBits(words) ==
  [bits |-> words,
   divide |-> FALSE,
   factor |-> 1,
   scaled |-> FALSE,
   value |-> <<>>]

FloatScaled(value, factor, divide) ==
  [bits |-> <<>>,
   divide |-> divide,
   factor |-> factor,
   scaled |-> TRUE,
   value |-> value]

\* a fixed-width arm of Data::parse: read n bytes, convert, wrap
DataFixed(i, n, t, v) ==
  LET Read(r) == IF r.kind # "Ok" THEN r ELSE NomOk(r.rest, Data(t, v))
  IN Read(StreamTake(i, n))

RECURSIVE DataParse(_), DataCount(_, _, _)
\* the loop of nom::multi::length_count(u8, Data::parse)
DataCount(i, count, res) ==
  IF count = 0 THEN NomOk(i, res)
  ELSE LET Element(r) ==
             IF r.kind # "Ok" THEN r
             ELSE DataCount(r.rest, count - 1, Append(res, r.val))
       IN Element(DataParse(i))

DataParse(i) ==
  LET Wrap(t, r) == IF r.kind # "Ok" THEN r ELSE NomOk(r.rest, Data(t, r.val))
      Structure(n) ==
        IF n.kind # "Ok" THEN n
        ELSE Wrap("Structure", DataCount(n.rest, n.val[1], <<>>))
      OctetString(n) ==
        IF n.kind # "Ok" THEN n
        ELSE IF Len(n.rest) < n.val[1] THEN NomIncomplete(1)
        ELSE NomOk(Drop(n.rest, n.val[1]),
                   Data("OctetString", Take(n.rest, n.val[1])))
      Match(data_type, in) ==
        CASE data_type = "Err" -> NomFailure("Fail")
          [] data_type = "DateTime" -> Wrap("DateTime", DateTimeParse(in))
          [] data_type = "Date" -> Wrap("Date", DateParse(in))
          [] data_type = "Time" -> Wrap("Time", TimeParse(in))
          [] data_type = "Null" -> NomOk(in, Data("Null", <<>>))
          [] data_type = "Structure" -> Structure(StreamTake(in, 1))
          [] data_type = "OctetString" -> OctetString(StreamTake(in, 1))
          [] data_type = "Float32" ->
               DataFixed(in, 4, "Float32", FloatBits(Words(Take(in, 4))))
          [] data_type = "Float64" ->
               DataFixed(in, 8, "Float64", FloatBits(Words(Take(in, 8))))
          [] data_type = "Integer" ->
               DataFixed(in, 1, "Integer", I8(in[1]))
          [] data_type = "Long" ->
               DataFixed(in, 2, "Long", I16(Take(in, 2)))
          [] data_type = "DoubleLong" ->
               DataFixed(in, 4, "DoubleLong", I32(Take(in, 4)))
          [] data_type = "Long64" ->
               DataFixed(in, 8, "Long64", Words(Take(in, 8)))
          [] data_type = "Enum" ->
               DataFixed(in, 1, "Enum", in[1])
          [] data_type = "LongUnsigned" ->
               DataFixed(in, 2, "LongUnsigned", U16(Take(in, 2)))
          [] data_type = "DoubleLongUnsigned" ->
               DataFixed(in, 4, "DoubleLongUnsigned", Words(Take(in, 4)))
          [] data_type = "Long64Unsigned" ->
               DataFixed(in, 8, "Long64Unsigned", Words(Take(in, 8)))
          [] OTHER -> Panic
      Tag(tag) ==
        IF tag.kind # "Ok" THEN tag
        ELSE Match(DataTypeTryFrom(tag.val[1]), tag.rest)
  IN Tag(StreamTake(i, 1))

(***************************************************************************)
(* data_notification.rs                                                    *)
(***************************************************************************)
LongInvokeIdAndPriorityParse(i) ==
  LET Read(r) == IF r.kind # "Ok" THEN r ELSE NomOk(r.rest, Words(r.val))
  IN Read(StreamTake(i, 4))

\* nom::multi::length_value(u8, DateTime::parse): the block of `length`
\* bytes is split off and parsed; what the inner parser leaves of the block
\* is dropped, and an inner Incomplete becomes Error(Complete)
LengthValueDateTime(i) ==
  LET Value(n, r) ==
        CASE r.kind = "Incomplete" -> NomError("Complete")
          [] r.kind = "Ok" -> NomOk(Drop(n.rest, n.val[1]), r.val)
          [] OTHER -> r
      Length(n) ==
        IF n.kind # "Ok" THEN n
        ELSE IF n.val[1] > Len(n.rest) THEN NomIncomplete(n.val[1] - Len(n.rest))
        ELSE Value(n, DateTimeParse(Take(n.rest, n.val[1])))
  IN Length(StreamTake(i, 1))

DataNotificationParse(i) ==
  LET WithBody(id, date_time, notification_body) ==
        IF notification_body.kind # "Ok" THEN notification_body
        ELSE NomOk(notification_body.rest,
                   [apdu |-> "DataNotification",
                    date_time |-> date_time.val,
                    long_invoke_id_and_priority |-> id.val,
                    notification_body |-> notification_body.val])
      DateTime(id, date_time) ==
        IF date_time.kind # "Ok" THEN date_time
        ELSE WithBody(id, date_time, DataParse(date_time.rest))
      LongInvokeIdAndPriority(id) ==
        IF id.kind # "Ok" THEN id
        ELSE DateTime(id, LengthValueDateTime(id.rest))
  IN LongInvokeIdAndPriority(LongInvokeIdAndPriorityParse(i))

(***************************************************************************)
(* security_control.rs: the byte is read with nom::number::complete::u8.   *)
(***************************************************************************)
SecurityControlParse(i) ==
  IF Len(i) < 1 THEN NomError("Eof") ELSE NomOk(Drop(i, 1), i[1])

Authentication_WrongBit(security_control) == BitAnd(security_control, 64) # 0

Authentication(security_control) == BitAnd(security_control, 16) # 0

Encryption(security_control) == BitAnd(security_control, 32) # 0

SetEncryptionFalse(security_control) ==
  security_control - BitAnd(security_control, 32)

(***************************************************************************)
(* general_glo_ciphering.rs: GeneralGloCiphering::parse.                   *)
(* `payload_len -= 5` is a usize subtraction: with overflow checks (a      *)
(* debug build) a block length below 5 aborts the process; without them    *)
(* (a release build) it wraps to 2^64 - k, a count no input can satisfy,   *)
(* so count(u8, payload_len) consumes the input and returns Incomplete(1). *)
(* checks is the build's overflow-checks setting.                          *)
(***************************************************************************)
GloBlockLen(i) ==
  LET Long(len) == IF len.kind # "Ok" THEN len ELSE NomOk(len.rest, U16(len.val))
      First(b) ==
        IF b.kind # "Ok" THEN b
        ELSE IF b.val[1] = 130 THEN Long(StreamTake(b.rest, 2))
        ELSE NomOk(b.rest, b.val[1])
  IN First(StreamTake(i, 1))

GeneralGloCipheringParse(i, checks) ==
  LET Payload(system_title, security_control, invocation_counter, payload) ==
        IF payload.kind # "Ok" THEN NomIncomplete(1)
        ELSE NomOk(payload.rest,
                   [apdu |-> "GeneralGloCiphering",
                    invocation_counter |-> invocation_counter.val,
                    payload |-> payload.val,
                    security_control |-> security_control.val,
                    system_title |-> [k \in 1..8 |-> system_title.val[k][1]]])
      InvocationCounter(system_title, block, security_control, invocation_counter) ==
        IF invocation_counter.kind # "Ok" THEN invocation_counter
        ELSE IF block.val < 5 THEN NomIncomplete(1)
        ELSE Payload(system_title, security_control, invocation_counter,
                     StreamTake(invocation_counter.rest, block.val - 5))
      SecurityControl(system_title, block, security_control) ==
        IF security_control.kind # "Ok" THEN security_control
        ELSE InvocationCounter(system_title, block, security_control,
                               IF Authentication(security_control.val)
                                    \/ Encryption(security_control.val)
                                 THEN StreamTake(security_control.rest, 4)
                                 ELSE NomOk(security_control.rest, <<>>))
      PayloadLen(system_title, block) ==
        IF block.kind # "Ok" THEN block
        ELSE IF block.val < 5 /\ checks THEN Panic
        ELSE SecurityControl(system_title, block, SecurityControlParse(block.rest))
      SystemTitle(system_title) ==
        IF system_title.kind # "Ok" THEN system_title
        ELSE PayloadLen(system_title, GloBlockLen(system_title.rest))
  IN IF Len(i) < 1 THEN NomIncomplete(1)
     ELSE IF i[1] # 8 THEN NomError("Tag")
     ELSE SystemTitle(StreamFields(Drop(i, 1), <<1, 1, 1, 1, 1, 1, 1, 1>>, <<>>))

(***************************************************************************)
(* general_glo_ciphering.rs: GeneralGloCiphering::decrypt.                 *)
(* Aes128Gcm's encrypt_in_place_detached XORs the payload with the GCM     *)
(* keystream of (key, iv) and returns a tag that decrypt drops: block i    *)
(* of the keystream (i from 1) is the AES-128 encryption of the iv         *)
(* followed by the 32-bit big-endian counter i + 1.  The call fails only   *)
(* on a payload longer than GCM's limit of 2^36 - 32 bytes.                *)
(* AES-128 (FIPS 197): a block is four columns of four bytes, the key      *)
(* schedule is 44 words of four bytes.                                     *)
(***************************************************************************)
RECURSIVE BitXor(_, _)
BitXor(a, b) ==
  IF a = 0 THEN b
  ELSE IF b = 0 THEN a
  ELSE 2 * BitXor(a \div 2, b \div 2) + (IF a % 2 = b % 2 THEN 0 ELSE 1)

SBox ==
  << 99, 124, 119, 123, 242, 107, 111, 197, 48, 1, 103, 43, 254, 215, 171, 118,
     202, 130, 201, 125, 250, 89, 71, 240, 173, 212, 162, 175, 156, 164, 114, 192,
     183, 253, 147, 38, 54, 63, 247, 204, 52, 165, 229, 241, 113, 216, 49, 21,
     4, 199, 35, 195, 24, 150, 5, 154, 7, 18, 128, 226, 235, 39, 178, 117,
     9, 131, 44, 26, 27, 110, 90, 160, 82, 59, 214, 179, 41, 227, 47, 132,
     83, 209, 0, 237, 32, 252, 177, 91, 106, 203, 190, 57, 74, 76, 88, 207,
     208, 239, 170, 251, 67, 77, 51, 133, 69, 249, 2, 127, 80, 60, 159, 168,
     81, 163, 64, 143, 146, 157, 56, 245, 188, 182, 218, 33, 16, 255, 243, 210,
     205, 12, 19, 236, 95, 151, 68, 23, 196, 167, 126, 61, 100, 93, 25, 115,
     96, 129, 79, 220, 34, 42, 144, 136, 70, 238, 184, 20, 222, 94, 11, 219,
     224, 50, 58, 10, 73, 6, 36, 92, 194, 211, 172, 98, 145, 149, 228, 121,
     231, 200, 55, 109, 141, 213, 78, 169, 108, 86, 244, 234, 101, 122, 174, 8,
     186, 120, 37, 46, 28, 166, 180, 198, 232, 221, 116, 31, 75, 189, 139, 138,
     112, 62, 181, 102, 72, 3, 246, 14, 97, 53, 87, 185, 134, 193, 29, 158,
     225, 248, 152, 17, 105, 217, 142, 148, 155, 30, 135, 233, 206, 85, 40, 223,
     140, 161, 137, 13, 191, 230, 66, 104, 65, 153, 45, 15, 176, 84, 187, 22 >>

SubByte(b) == SBox[b + 1]

\* multiplication by x in GF(2^8) modulo x^8 + x^4 + x^3 + x + 1
XTime(b) == BitXor((2 * b) % 256, IF b >= 128 THEN 27 ELSE 0)

\* (f \o <<>> is the sequence f: the four entries are computed once)
XorWord(a, b) == [k \in 1..4 |-> BitXor(a[k], b[k])] \o <<>>

RCon == <<1, 2, 4, 8, 16, 32, 64, 128, 27, 54>>

\* the word XORed into w[i - 4] to give w[i], i = Len(w): the last word,
\* rotated, substituted and with the round constant when i is a multiple of 4
KeyScheduleCore(w) ==
  IF Len(w) % 4 = 0
    THEN <<BitXor(SubByte(w[Len(w)][2]), RCon[Len(w) \div 4]),
           SubByte(w[Len(w)][3]),
           SubByte(w[Len(w)][4]),
           SubByte(w[Len(w)][1])>>
    ELSE w[Len(w)]

\* (a value is bound once by drawing it from the set that holds only it)
RECURSIVE KeyExpansion(_)
KeyExpansion(w) ==
  IF Len(w) = 44 THEN w
  ELSE CHOOSE schedule \in
         { KeyExpansion(next) :
             next \in { Append(w, XorWord(w[Len(w) - 3], KeyScheduleCore(w))) } } : TRUE

\* a 16-byte key or block as four words
Words4(b) == [c \in 1..4 |-> SubSeq(b, 4 * c - 3, 4 * c)] \o <<>>

\* SubBytes and ShiftRows: column c of the result (c from 0); its row r
\* comes from column c + r - 1
SubShiftColumn(s, c) ==
  [r \in 1..4 |-> SubByte(s[((c + r - 1) % 4) + 1][r])] \o <<>>

\* MixColumns on one column: each byte is 2 a[r] + 3 a[r+1] + a[r+2] + a[r+3]
MixByte(a0, a1, a2, a3) ==
  BitXor(BitXor(XTime(a0), BitXor(XTime(a1), a1)), BitXor(a2, a3))

MixColumn(a) ==
  [r \in 1..4 |->
     MixByte(a[r], a[(r % 4) + 1], a[((r + 1) % 4) + 1], a[((r + 2) % 4) + 1])] \o <<>>

AddRoundKey(s, w, round) ==
  [c \in 1..4 |-> XorWord(s[c], w[4 * round + c])] \o <<>>

AesRound(s, w, round) ==
  [c \in 1..4 |->
     XorWord(MixColumn(SubShiftColumn(s, c - 1)), w[4 * round + c])] \o <<>>

AesFinalRound(s, w) ==
  [c \in 1..4 |-> XorWord(SubShiftColumn(s, c - 1), w[40 + c])] \o <<>>

RECURSIVE AesRounds(_, _, _)
AesRounds(s, w, round) ==
  IF round = 10 THEN AesFinalRound(s, w)
  ELSE CHOOSE cipher \in
         { AesRounds(next, w, round + 1) : next \in { AesRound(s, w, round) } } : TRUE

\* the encryption of a 16-byte block under the key schedule w
Aes128EncryptBlock(w, block) ==
  CHOOSE cipher \in
    { s[1] \o s[2] \o s[3] \o s[4] :
        s \in { AesRounds(first, w, 1) : first \in { AddRoundKey(Words4(block), w, 0) } } } :
    TRUE

\* block i of the GCM keystream, i from 1
KeystreamBlock(w, iv, i) ==
  Aes128EncryptBlock(w, iv \o <<0, 0, ((i + 1) \div 256) % 256, (i + 1) % 256>>)

\* payload, of at most 16 bytes, XORed with the first bytes of the block
XorBytes(payload, keystream) ==
  [j \in 1..Len(payload) |-> BitXor(payload[j], keystream[j])]

RECURSIVE CtrApply(_, _, _, _)
CtrApply(w, iv, payload, i) ==
  IF payload = <<>> THEN <<>>
  ELSE CHOOSE text \in
         { XorBytes(SubSeq(payload, 1, IF Len(payload) < 16 THEN Len(payload) ELSE 16),
                    keystream)
             \o CtrApply(w, iv, Drop(payload, 16), i + 1) :
             keystream \in { KeystreamBlock(w, iv, i) } } : TRUE

Aes128GcmApply(aes_key, iv, payload) ==
  CHOOSE text \in
    { CtrApply(w, iv, payload, 1) : w \in { KeyExpansion(Words4(aes_key)) } } : TRUE

\* lib.rs tests: the key, the system title and the invocation counter of
\* test_parse_mbus
TestKey == <<222, 175, 190, 239, 202, 254, 186, 190, 222, 175, 190, 239, 202, 254, 186, 190>>

SampleTitle == <<75, 70, 77, 16, 32, 1, 18, 169>>

SampleCounter == <<0, 2, 188, 102>>

\* the first four keystream blocks under TestKey and the sample title and
\* counter: what Aes128GcmApply makes of zero bytes, since x XOR 0 = x
SampleKeystream ==
  Aes128GcmApply(TestKey, SampleTitle \o SampleCounter, [j \in 1..64 |-> 0])

\* Aes128GcmApply(aes_key, iv, payload); the keystream of the sample key,
\* title and counter is taken from SampleKeystream instead of being
\* computed again for every message
CipherApply(aes_key, iv, payload) ==
  IF /\ aes_key = TestKey
     /\ iv = SampleTitle \o SampleCounter
     /\ Len(payload) <= 64
    THEN XorBytes(payload, SampleKeystream) \o <<>>
    ELSE Aes128GcmApply(aes_key, iv, payload)

GloDecrypt(ciphering, aes_key) ==
  IF Encryption(ciphering.security_control)
    THEN CipherApply(aes_key, ciphering.system_title \o ciphering.invocation_counter,
                     ciphering.payload)
    ELSE ciphering.payload

(***************************************************************************)
(* lib.rs: Apdu::parse and Apdu::parse_encrypted                           *)
(***************************************************************************)
ApduParse(i, checks) ==
  LET Tag(tag) ==
        IF tag.kind # "Ok" THEN tag
        ELSE CASE tag.val[1] = 15 -> DataNotificationParse(tag.rest)
               [] tag.val[1] = 219 -> GeneralGloCipheringParse(tag.rest, checks)
               [] OTHER -> Panic
  IN Tag(StreamTake(i, 1))

\* all_consuming(complete(Apdu::parse))
ApduParseAllComplete(i, checks) ==
  LET AllComplete(r) ==
        CASE r.kind = "Incomplete" -> NomError("Complete")
          [] r.kind = "Ok" /\ r.rest # <<>> -> NomError("Eof")
          [] OTHER -> r
  IN AllComplete(ApduParse(i, checks))

ApduParseEncrypted(i, aes_key, checks) ==
  LET Inner(outer, inner) ==
        IF inner.kind = "Panic" THEN Panic
        ELSE IF inner.kind # "Ok" THEN NomFailure("InvalidFormat")
        ELSE NomOk(outer.rest, inner.val)
      Outer(outer) ==
        IF outer.kind = "Panic" THEN Panic
        ELSE IF outer.kind # "Ok" THEN NomFailure("InvalidFormat")
        ELSE IF outer.val.apdu = "GeneralGloCiphering"
          THEN Inner(outer, ApduParseAllComplete(GloDecrypt(outer.val, aes_key), checks))
          ELSE outer
  IN Outer(ApduParse(i, checks))

(***************************************************************************)
(* unit.rs: Unit::try_from (derive TryFromPrimitive): the codes the enum   *)
(* names.  A unit is kept as its code.                                     *)
(***************************************************************************)
UnitCodes == (1..57) \cup (60..67) \cup (70..72) \cup {254, 255}

UnitTryFrom(unit) ==
  IF unit \in UnitCodes THEN [ok |-> TRUE, v |-> unit] ELSE [ok |-> FALSE, v |-> unit]

(***************************************************************************)
(* obis_code.rs: all_consuming(ObisCode::parse) on the bytes of an octet   *)
(* string (complete::u8 six times), and the derived lexicographic order.   *)
(***************************************************************************)
ObisCodeParseAll(b) ==
  IF Len(b) < 6 THEN NomError("Eof")
  ELSE IF Len(b) > 6 THEN NomError("Eof")
  ELSE NomOk(<<>>, b)

RECURSIVE LexLess(_, _)
LexLess(x, y) ==
  IF x = <<>> \/ y = <<>> THEN x = <<>> /\ y # <<>>
  ELSE IF Head(x) # Head(y) THEN Head(x) < Head(y)
  ELSE LexLess(Tail(x), Tail(y))

(***************************************************************************)
(* lib.rs: the scale! macro of Register::parse_inner.  factor is an i32    *)
(* (the integer fallback type), folded from 1 by f * 10, |scaler| times.   *)
(* With overflow checks the multiplication and i8::abs abort on overflow;  *)
(* without them they wrap, and abs(-128) = -128 as usize is a loop count   *)
(* of 2^64 - 128: the call does not return ("Hang").                       *)
(***************************************************************************)
Mul10I32(f) ==
  LET hi == (f \div 65536) % 65536
      lo == f % 65536
      lo10 == lo * 10
      hi10 == hi * 10 + (lo10 \div 65536)
      whi == hi10 % 65536
      wlo == lo10 % 65536
  IN [overflow |-> (f >= 0 /\ hi10 >= 32768) \/ (f < 0 /\ f < -214748364),
      v |-> (IF whi >= 32768 THEN whi - 65536 ELSE whi) * 65536 + wlo]

RECURSIVE Factor(_, _, _)
Factor(n, f, checks) ==
  IF n = 0 THEN [kind |-> "Ok", v |-> f]
  ELSE LET Times10(m) ==
             IF m.overflow /\ checks THEN [kind |-> "Panic", v |-> 0]
             ELSE Factor(n - 1, m.v, checks)
       IN Times10(Mul10I32(f))

Scale(value, scaler, checks) ==
  IF scaler = -128
    THEN [kind |-> IF checks THEN "Panic" ELSE "Hang", v |-> <<>>]
    ELSE LET Scaled(factor) ==
               IF factor.kind # "Ok" THEN [kind |-> factor.kind, v |-> <<>>]
               ELSE [kind |-> "Ok", v |-> FloatScaled(value, factor.v, scaler < 0)]
         IN Scaled(Factor(IF scaler < 0 THEN -scaler ELSE scaler, 1, checks))

(***************************************************************************)
(* lib.rs: Register.  The input is a sequence of Data values.              *)
(***************************************************************************)
Abort(kind) ==
  [err |-> "-",
   kind |-> kind,
   needed |-> 0,
   rest |-> <<>>,
   val |-> <<>>]

Aborted(r) == r.kind \in {"Panic", "Hang"}

RegisterParseObisCode(i) ==
  LET Code(code) == IF code.kind # "Ok" THEN code ELSE NomOk(Tail(i), code.val)
  IN IF i = <<>> THEN NomIncomplete(1)
     ELSE IF i[1].t = "OctetString" THEN Code(ObisCodeParseAll(i[1].v))
     ELSE NomError("Fail")

RegisterParseValue(i) ==
  IF i = <<>> THEN NomIncomplete(1) ELSE NomOk(Tail(i), i[1])

\* RegisterParseScalerUnit without the test for the pair (0, 0xff)
RegisterParseScalerUnit_NoSentinel(i) ==
  IF i = <<>> THEN NomIncomplete(1)
  ELSE IF /\ i[1].t = "Structure"
          /\ Len(i[1].v) = 2
          /\ i[1].v[1].t = "Integer"
          /\ i[1].v[2].t = "Enum"
    THEN NomOk(Tail(i), [scaler |-> i[1].v[1].v, unit |-> i[1].v[2].v])
    ELSE NomError("Fail")

RegisterParseScalerUnit(i) ==
  IF i = <<>> THEN NomIncomplete(1)
  ELSE IF /\ i[1].t = "Structure"
          /\ Len(i[1].v) = 2
          /\ i[1].v[1].t = "Integer"
          /\ i[1].v[2].t = "Enum"
          /\ (i[1].v[1].v # 0 \/ i[1].v[2].v # 255)
    THEN NomOk(Tail(i), [scaler |-> i[1].v[1].v, unit |-> i[1].v[2].v])
    ELSE NomError("Fail")

RegisterParseInner(i, checks) ==
  LET Float(t, s) == [kind |-> s.kind, v |-> Data(t, s.v)]
      Register(obis_code, su, scaled, unit) ==
        IF scaled.kind # "Ok" THEN Abort(scaled.kind)
        ELSE IF ~unit.ok THEN NomError("Fail")
        ELSE NomOk(su.rest, [obis_code |-> obis_code.val,
                             unit |-> Some(unit.v),
                             value |-> scaled.v])
      ScalerUnit(obis_code, value, su) ==
        IF su.kind # "Ok"
          THEN NomOk(value.rest, [obis_code |-> obis_code.val,
                                  unit |-> None,
                                  value |-> value.val])
          ELSE Register(obis_code, su,
                        CASE value.val.t = "LongUnsigned" ->
                               Float("Float32",
                                     Scale(<<value.val.v>>, su.val.scaler, checks))
                          [] value.val.t = "DoubleLongUnsigned" ->
                               Float("Float64",
                                     Scale(value.val.v, su.val.scaler, checks))
                          [] OTHER -> [kind |-> "Ok", v |-> value.val],
                        UnitTryFrom(su.val.unit))
      Value(obis_code, value) ==
        IF value.kind # "Ok" THEN value
        ELSE ScalerUnit(obis_code, value, RegisterParseScalerUnit(value.rest))
      ObisCode(obis_code) ==
        IF obis_code.kind # "Ok" THEN obis_code
        ELSE Value(obis_code, RegisterParseValue(obis_code.rest))
  IN ObisCode(RegisterParseObisCode(i))

\* complete(f): Incomplete becomes Error(Complete)
Complete(r) == IF r.kind = "Incomplete" THEN NomError("Complete") ELSE r

RegisterParseInnerNested(i, checks) ==
  LET Inner(inner) == IF inner.kind # "Ok" THEN inner ELSE NomOk(Tail(i), inner.val)
  IN IF i = <<>> THEN NomIncomplete(1)
     ELSE IF i[1].t = "Structure"
       THEN Inner(Complete(RegisterParseInner(i[1].v, checks)))
       ELSE NomError("Fail")

\* alt((complete(parse_inner), complete(parse_inner_nested)))
RegisterParse(i, checks) ==
  LET Alt(a) ==
        IF a.kind # "Error" THEN a
        ELSE Complete(RegisterParseInnerNested(i, checks))
  IN Alt(Complete(RegisterParseInner(i, checks)))

(***************************************************************************)
(* lib.rs: ObisMap.  The BTreeMap is the sequence of its registers in key  *)
(* order; insert replaces the register of an equal key.                    *)
(***************************************************************************)
\* BTreeInsert that keeps the register already held for an equal key
RECURSIVE BTreeInsert_KeepsFirst(_, _)
BTreeInsert_KeepsFirst(map, reg) ==
  IF map = <<>> THEN <<reg>>
  ELSE IF Head(map).obis_code = reg.obis_code THEN map
  ELSE IF LexLess(reg.obis_code, Head(map).obis_code) THEN <<reg>> \o map
  ELSE <<Head(map)>> \o BTreeInsert_KeepsFirst(Tail(map), reg)

RECURSIVE BTreeInsert(_, _)
BTreeInsert(map, reg) ==
  IF map = <<>> THEN <<reg>>
  ELSE IF Head(map).obis_code = reg.obis_code THEN <<reg>> \o Tail(map)
  ELSE IF LexLess(reg.obis_code, Head(map).obis_code) THEN <<reg>> \o map
  ELSE <<Head(map)>> \o BTreeInsert(Tail(map), reg)

\* fold_many0(Register::parse, BTreeMap::new, insert)
RECURSIVE FoldRegisters(_, _, _)
FoldRegisters(i, values, checks) ==
  LET Fold(reg) ==
        IF reg.kind = "Error" THEN NomOk(i, values)
        ELSE IF reg.kind # "Ok" THEN reg
        ELSE IF Len(reg.rest) = Len(i) THEN NomError("Many0")
        ELSE FoldRegisters(reg.rest, BTreeInsert(values, reg.val), checks)
  IN Fold(RegisterParse(i, checks))

ObisMapParse(apdu, checks) ==
  LET AllConsuming(values) ==
        IF values.kind = "Ok" /\ values.rest # <<>> THEN NomError("Eof")
        ELSE IF values.kind = "Ok" THEN NomOk(<<>>, values.val)
        ELSE values
  IN IF apdu.apdu = "DataNotification" /\ apdu.notification_body.t = "Structure"
       THEN AllConsuming(FoldRegisters(apdu.notification_body.v, <<>>, checks))
       ELSE NomError("Fail")

(***************************************************************************)
(* lib.rs: parse_mbus, the reassembly loop of Dlms: as in mbus.rs, and the *)
(* joined payload is parsed with                                           *)
(* all_consuming(complete(Apdu::parse_encrypted)).                         *)
(***************************************************************************)
LibHeader(user_data, ci, current_segment) ==
  IF ci.variant = "Segmented"
    THEN IF current_segment # ci.segment
           THEN NomFailure("ChecksumMismatch")
           ELSE NomOk(user_data, [current_segment |-> WrappingAdd1(current_segment),
                                  last_segment |-> ci.last_segment])
    ELSE LET Stripped(acc) ==
               IF acc.kind # "Ok" THEN acc
               ELSE NomOk(acc.rest, [current_segment |-> current_segment,
                                     last_segment |-> TRUE])
             LongStripped(ala) ==
               IF ala.kind # "Ok" THEN ala
               ELSE Stripped(TupleU8Complete(ala.rest, 3))
         IN LongStripped(IF ci.header = "Long"
                           THEN TupleU8Complete(user_data, 3)
                           ELSE NomOk(user_data, <<>>))

LibApdu(payload, aes_key, checks) ==
  LET AllConsuming(r) ==
        IF r.kind = "Ok" /\ r.rest # <<>> THEN NomError("InvalidFormat") ELSE r
  IN AllConsuming(ApduParseEncrypted(payload, aes_key, checks))

RECURSIVE LibLoop(_, _, _, _, _, _, _)
LibLoop(telegrams, i, payload, current_segment, len, aes_key, checks) ==
  IF i > Len(telegrams) THEN NomIncomplete(0)
  ELSE IF telegrams[i].frame # "LongFrame" THEN NomFailure("InvalidFormat")
  ELSE
    LET user_data == telegrams[i].user_data
        Apdu(apdu) ==
          IF apdu.kind # "Ok" THEN apdu
          ELSE NomOk(Drop(telegrams, len + 1), apdu.val)
        Sap(hdr, sap) ==
          IF sap.kind # "Ok" THEN sap
          ELSE IF hdr.val.last_segment
            THEN Apdu(LibApdu(payload \o sap.rest, aes_key, checks))
            ELSE LibLoop(telegrams, i + 1, payload \o sap.rest,
                         hdr.val.current_segment, len + 1, aes_key, checks)
        Header(hdr) ==
          IF hdr.kind # "Ok" THEN hdr
          ELSE Sap(hdr, TupleU8Complete(hdr.rest, 2))
        Match(ci) ==
          IF ~ci.ok THEN NomFailure("InvalidFormat")
          ELSE Header(LibHeader(user_data, ci, current_segment))
    IN Match(ControlInformationTryFrom(telegrams[i].control_information))

LibParseMbus(telegrams, aes_key, checks) ==
  LibLoop(telegrams, 1, <<>>, 0, 0, aes_key, checks)

(***************************************************************************)
(* lib.rs: Dlms::decrypt.  The result is kind "Ok" with the remaining      *)
(* telegrams and the ObisMap, or kind "Err" with the Error: err            *)
(* "Incomplete" carries needed, 0 for Incomplete(None).                    *)
(***************************************************************************)
DlmsErr(e, needed) ==
  [err |-> e,
   kind |-> "Err",
   needed |-> needed,
   rest |-> <<>>,
   val |-> <<>>]

(***************************************************************************)
(* mbus.rs: MBusDataLinkLayer::next_frame is map_nom_error on the result   *)
(* of parse_mbus.  mbus.rs imports map_nom_error from the crate root, and  *)
(* lib.rs does not hold it; it is taken from the error handling design of  *)
(* the specification: an incomplete signal becomes Incomplete with its     *)
(* size hint, and the Error of the innermost parser surfaces as it is.     *)
(***************************************************************************)
MapNomError(r) ==
  CASE r.kind = "Incomplete" -> DlmsErr("Incomplete", r.needed)
    [] IsErr(r) -> DlmsErr(r.err, 0)
    [] OTHER -> r

MBusNextFrame(telegrams) == MapNomError(MBusParseMbus(telegrams))

DlmsDecrypt(telegrams, aes_key, checks) ==
  LET Obis(r, obis) ==
        IF Aborted(obis) THEN obis
        ELSE IF obis.kind # "Ok" THEN DlmsErr("InvalidFormat", 0)
        ELSE NomOk(r.rest, obis.val)
      Apdu(r) ==
        IF r.kind = "Panic" THEN Panic
        ELSE IF r.kind = "Incomplete" THEN DlmsErr("Incomplete", r.needed)
        ELSE IF r.kind # "Ok" THEN DlmsErr(r.err, 0)
        ELSE Obis(r, ObisMapParse(r.val, checks))
  IN Apdu(LibParseMbus(telegrams, aes_key, checks))

(***************************************************************************)
(* The telegrams the link layer hands to the caller.  A telegram is        *)
(* [frame, control_information, user_data]; only LongFrame carries the     *)
(* last two.  SamplePlain is a data-notification with one register in the  *)
(* inline form; SampleEnvelope is its general-glo-ciphering envelope under *)
(* TestKey.                                                                *)
(***************************************************************************)
SampleDateTime == <<7, 224, 9, 8, 4, 19, 13, 25, 0, 255, 196, 128>>

SamplePlain ==
  <<15, 0, 0, 85, 57, 12>> \o SampleDateTime
    \o <<2, 3, 9, 6, 1, 0, 1, 8, 0, 255, 18, 0, 100, 2, 2, 15, 255, 22, 30>>

SampleEnvelope ==
  <<219, 8>> \o SampleTitle \o <<5 + Len(SamplePlain), 33>> \o SampleCounter
    \o CipherApply(TestKey, SampleTitle \o SampleCounter, SamplePlain)

Bytes(base, n) == [k \in 1..n |-> base + k]

LongFrame(control_information, user_data) ==
  [control_information |-> control_information,
   frame |-> "LongFrame",
   user_data |-> user_data]

ShortFrame == [control_information |-> 0,
               frame |-> "ShortFrame",
               user_data |-> <<>>]

Telegrams ==
  { ShortFrame,
    LongFrame(0, Bytes(16, 3)),
    LongFrame(0, Bytes(32, 1)),
    LongFrame(1, Bytes(48, 3)),
    LongFrame(2, Bytes(64, 4)),
    LongFrame(16, Bytes(80, 3)),
    LongFrame(17, Bytes(96, 4)),
    LongFrame(18, Bytes(112, 3)),
    LongFrame(32, Bytes(128, 3)),
    LongFrame(96, Bytes(144, 9)),
    LongFrame(124, Bytes(160, 7)),
    LongFrame(97, Bytes(208, 4)),
    LongFrame(125, Bytes(240, 5) \o SampleEnvelope),
    LongFrame(0, Bytes(8, 2) \o Take(SamplePlain, 20)),
    LongFrame(17, Bytes(24, 2) \o Drop(SamplePlain, 20)) }

(***************************************************************************)
(* The caller of the link layer: it holds the Dlms (its key) and a buffer  *)
(* of telegrams, appends what arrives, calls next_frame or decrypt on the  *)
(* buffer, keeps the remaining telegrams of a successful call and the      *)
(* whole buffer otherwise, and may discard the buffer.                     *)
(***************************************************************************)
Init ==
  /\ input = <<>>
  /\ called = <<>>
  /\ result = NoResult
  /\ api = "-"
  /\ incompleteAt = -1
  /\ resumedFrom = -1
  /\ key = TestKey
  /\ overflow_checks \in BOOLEAN
  /\ bytes = <<>>
  /\ out = NoResult
  /\ op = "-"

Receive(t) ==
  /\ Len(input) < MaxTelegrams
  /\ input' = Append(input, t)
  /\ called' = <<>>
  /\ result' = NoResult
  /\ api' = "-"
  /\ resumedFrom' = -1
  /\ UNCHANGED <<incompleteAt, key, overflow_checks, bytes, out, op>>

Returned(r, entry) ==
  /\ result' = r
  /\ called' = input
  /\ api' = entry
  /\ resumedFrom' = incompleteAt
  /\ input' = IF r.kind = "Ok" THEN r.rest ELSE input
  /\ incompleteAt' = IF r.kind = "Err" /\ r.err = "Incomplete"
                       THEN Len(input) ELSE -1
  /\ UNCHANGED <<key, overflow_checks, bytes, out, op>>

NextFrame == Returned(MBusNextFrame(input), "next_frame")

Decrypt == Returned(DlmsDecrypt(input, key, overflow_checks), "decrypt")

Discard ==
  /\ input # <<>>
  /\ input' = <<>>
  /\ called' = <<>>
  /\ result' = NoResult
  /\ api' = "-"
  /\ incompleteAt' = -1
  /\ resumedFrom' = -1
  /\ UNCHANGED <<key, overflow_checks, bytes, out, op>>

Next ==
  \/ \E t \in Telegrams : Receive(t)
  \/ NextFrame
  \/ Decrypt
  \/ Discard

Spec == Init /\ [][Next]_vars

(***************************************************************************)
(* What the claims say of a telegram, read off its control-information     *)
(* byte as the data model describes it (not through the decoder).          *)
(***************************************************************************)
IsLong(t) == t.frame = "LongFrame"

SegmentedBytes == 0..31

UnsegmentedBytes == {96, 97, 124, 125}

SegmentField(t) == t.control_information % 16

LastBit(t) == (t.control_information \div 16) % 2 = 1

IsSegmented(t) == IsLong(t) /\ t.control_information \in SegmentedBytes

IsUnsegmented(t) == IsLong(t) /\ t.control_information \in UnsegmentedBytes

IsLastSegment(t) == (IsSegmented(t) /\ LastBit(t)) \/ IsUnsegmented(t)

BadTelegram(t) ==
  ~IsLong(t) \/ t.control_information \notin (SegmentedBytes \cup UnsegmentedBytes)

\* bytes stripped from the user data of a telegram
PrefixLen(t) ==
  IF IsSegmented(t) THEN 2
  ELSE IF t.control_information \in {96, 124} THEN 3 + 3 + 2
  ELSE 3 + 2

\* the k-th telegram (counted from 0) is a segment that continues the
\* message: in sequence, not last, and long enough for its SAP bytes
ContinuingSegment(t, k) ==
  /\ IsSegmented(t)
  /\ ~LastBit(t)
  /\ SegmentField(t) = k % 256
  /\ Len(t.user_data) >= 2

\* the k-th telegram (counted from 0) is the final segment, in sequence
FinalSegment(t, k) ==
  /\ IsSegmented(t)
  /\ LastBit(t)
  /\ SegmentField(t) = k % 256
  /\ Len(t.user_data) >= 2

AllContinuing(ts) == \A j \in 1..Len(ts) : ContinuingSegment(ts[j], j - 1)

Called == api \in {"next_frame", "decrypt"}

ReturnedError(e) == Called /\ result.kind = "Err" /\ result.err = e

ReturnedIncompleteUnknown ==
  Called /\ result.kind = "Err" /\ result.err = "Incomplete" /\ result.needed = 0

RECURSIVE StrippedConcat(_, _)
StrippedConcat(ts, k) ==
  IF k = 0 THEN <<>>
  ELSE StrippedConcat(ts, k - 1) \o Drop(ts[k].user_data, PrefixLen(ts[k]))

(***************************************************************************)
(* C1: when the telegrams before the k-th are segments in sequence and the *)
(* k-th is a Segmented telegram whose segment field differs from the       *)
(* expected-segment counter (k - 1, counted from 0 on every call), the     *)
(* call returns ChecksumMismatch and keeps no payload: nothing is          *)
(* consumed.                                                               *)
(***************************************************************************)
C1_SegmentMismatch ==
  Called =>
    \A k \in 1..Len(called) :
      ( /\ AllContinuing(Take(called, k - 1))
        /\ IsSegmented(called[k])
        /\ SegmentField(called[k]) # (k - 1) % 256 )
      => ReturnedError("ChecksumMismatch") /\ input = called

C1_Witness ==
  /\ api = "next_frame"
  /\ Len(called) = 2
  /\ called[1] = LongFrame(0, Bytes(16, 3))
  /\ called[2].frame = "LongFrame"
  /\ called[2].control_information = 2
  /\ result.kind = "Err"
  /\ result.err = "ChecksumMismatch"

(***************************************************************************)
(* C2: (a) a call on a sequence (the empty one too) of segments that are   *)
(* all well-formed, in sequence and not last returns Incomplete without a  *)
(* size hint, Error::Incomplete(None) from Dlms::decrypt, and consumes no  *)
(* telegram; (b) when next_frame is called again on that sequence with the *)
(* final segment appended, it succeeds and consumes the whole sequence.    *)
(***************************************************************************)
C2_IncompleteThenResume ==
  Called =>
    /\ AllContinuing(called) => ReturnedIncompleteUnknown /\ input = called
    /\ ( /\ api = "next_frame"
         /\ resumedFrom >= 0
         /\ resumedFrom = Len(called) - 1
         /\ AllContinuing(Take(called, resumedFrom))
         /\ FinalSegment(called[Len(called)], resumedFrom) )
       => result.kind = "Ok" /\ result.rest = <<>> /\ input = <<>>

C2_Witness ==
  /\ api = "next_frame"
  /\ resumedFrom = 1
  /\ Len(called) = 2
  /\ AllContinuing(Take(called, 1))
  /\ FinalSegment(called[2], 1)
  /\ result.kind = "Ok"

(***************************************************************************)
(* C3: a successful next_frame returns the concatenation, in order, of the *)
(* user data of the telegrams up to and including the first last-segment   *)
(* telegram, each without its prefix (2 bytes when Segmented, 8 when       *)
(* Unsegmented with a Long header, 5 with a Short header), and as          *)
(* remaining input the telegrams after that telegram; an Unsegmented       *)
(* telegram counts as last segment.                                        *)
(***************************************************************************)
C3_PayloadAndRemainder ==
  (api = "next_frame" /\ result.kind = "Ok") =>
    \E k \in 1..Len(called) :
      /\ IsLastSegment(called[k])
      /\ \A j \in 1..(k - 1) : ~IsLastSegment(called[j])
      /\ result.val = StrippedConcat(called, k)
      /\ result.rest = Drop(called, k)
      /\ input = Drop(called, k)

C3_Witness ==
  /\ api = "next_frame"
  /\ result.kind = "Ok"
  /\ Len(called) = 3
  /\ IsSegmented(called[1])
  /\ IsSegmented(called[2])
  /\ Len(result.rest) = 1
  /\ Len(result.val) = Len(called[1].user_data) + Len(called[2].user_data) - 4
  /\ Len(result.val) > 2

(***************************************************************************)
(* C4 as stated: a telegram that is not a LongFrame, or whose              *)
(* control-information byte is not a valid one, at or before the first     *)
(* last-segment telegram makes the call return InvalidFormat.              *)
(***************************************************************************)
C4_Original ==
  Called =>
    \A k \in 1..Len(called) :
      ( /\ BadTelegram(called[k])
        /\ \A j \in 1..(k - 1) : ~IsLastSegment(called[j]) )
      => ReturnedError("InvalidFormat")

(***************************************************************************)
(* C4 amended: the same, provided every Segmented telegram before that     *)
(* telegram carries its position as segment number; the call then keeps    *)
(* every telegram.  (The loop returns at the first telegram that fails,    *)
(* and an earlier segment that is out of sequence fails first.)            *)
(***************************************************************************)
C4_InvalidFormat ==
  Called =>
    \A k \in 1..Len(called) :
      ( /\ BadTelegram(called[k])
        /\ \A j \in 1..(k - 1) : ~IsLastSegment(called[j])
        /\ \A j \in 1..(k - 1) :
             IsSegmented(called[j]) => SegmentField(called[j]) = (j - 1) % 256 )
      => ReturnedError("InvalidFormat") /\ input = called

C4_Witness ==
  /\ api = "next_frame"
  /\ Len(called) = 3
  /\ AllContinuing(Take(called, 2))
  /\ BadTelegram(called[3])
  /\ IsLong(called[3])
  /\ result.kind = "Err"
  /\ result.err = "InvalidFormat"

(***************************************************************************)
(* The decoders called on their own: a caller hands a byte string to one   *)
(* of the public parsers.  bytes is the input of the last call, op its     *)
(* name and out what it returned.  The inputs are drawn from the sets      *)
(* below: every byte value at every position of a sample, the edges of     *)
(* the value ranges, every truncation, and up to MaxTrailing bytes after   *)
(* a complete value.  A caller makes one call at a time.                   *)
(***************************************************************************)
MaxTrailing == 2

MaxDepth == 2

Byte == 0..255

Trailing == { Bytes(200, n) : n \in 0..MaxTrailing }

Prefixes(s) == { Take(s, n) : n \in 0..Len(s) }

\* s with the byte at position p replaced by b
WithByte(s, p, b) == [s EXCEPT ![p] = b]

FieldEdges == {0, 23, 24, 59, 60, 99, 100, 255}

SampleTime == <<19, 13, 25, 0>>

TimeInputs ==
  { WithByte(SampleTime, p, b) \o t : p \in 1..4, b \in Byte, t \in Trailing }
    \cup { <<h, m, s, c>> : h \in FieldEdges, m \in FieldEdges,
                            s \in FieldEdges, c \in FieldEdges }
    \cup Prefixes(SampleTime)

DateTimeInputs ==
  { WithByte(SampleDateTime, p, b) \o t : p \in 1..12, b \in Byte, t \in Trailing }
    \cup { Take(SampleDateTime, 9) \o <<hi, lo, cs>> :
             hi \in {0, 127, 128, 255}, lo \in {0, 1, 255}, cs \in {0, 128, 255} }
    \cup Prefixes(SampleDateTime)

\* payloads that every tag of the type table can read as its own: a count
\* or length byte first, valid time bytes where a DateTime has its time
DataPayloads ==
  { <<2, 15, 255, 22, 30, 19, 13, 25, 0, 255, 196, 128>>,
    <<1, 9, 0, 240, 128, 23, 59, 59, 99, 128, 0, 255>>,
    <<0, 200, 129, 7, 255, 255, 255, 255, 255, 127, 255, 0>> }

\* the bytes of x as the only element of d nested structures
RECURSIVE Nested(_, _)
Nested(d, x) == IF d = 0 THEN x ELSE <<2, 1>> \o Nested(d - 1, x)

DataInputs ==
  { <<tag>> \o p \o t : tag \in Byte, p \in DataPayloads, t \in Trailing }
    \cup { <<tag>> \o q : tag \in Byte,
                          q \in UNION { Prefixes(p) : p \in DataPayloads } }
    \cup { Nested(d, <<tag>> \o p) : d \in 1..MaxDepth, tag \in Byte,
                                     p \in DataPayloads }
    \cup { <<2, 2, 0, tag>> \o p : tag \in Byte, p \in DataPayloads }
    \cup { <<>> }

\* a general-glo-ciphering APDU around plaintext, as a meter with TestKey
\* sends it: the invocation counter is present when security_control asks
\* for authentication or encryption, the payload is enciphered when it asks
\* for encryption
Envelope(security_control, plaintext) ==
  <<219, 8>> \o SampleTitle \o <<5 + Len(plaintext), security_control>>
    \o (IF Authentication(security_control) \/ Encryption(security_control)
          THEN SampleCounter ELSE <<>>)
    \o (IF Encryption(security_control)
          THEN CipherApply(TestKey, SampleTitle \o SampleCounter, plaintext)
          ELSE plaintext)

SecurityControls == {0, 16, 32, 33, 48}

Plaintexts ==
  { SamplePlain \o t : t \in Trailing }
    \cup Prefixes(SamplePlain)
    \cup { <<tag>> \o Tail(SamplePlain) : tag \in Byte }
    \cup { <<tag>> : tag \in Byte }
    \cup { Envelope(0, SamplePlain) }

ApduInputs ==
  { <<tag>> \o Tail(SamplePlain) \o t : tag \in Byte, t \in Trailing }
    \cup { <<tag>> : tag \in Byte }
    \cup { Envelope(sc, p) \o t : sc \in SecurityControls, p \in Plaintexts,
                                  t \in Trailing }
    \cup Prefixes(SampleEnvelope)
    \cup Prefixes(SamplePlain)
    \cup { <<219, 8>> \o SampleTitle \o <<n, sc>> \o SampleCounter \o Bytes(100, 3) :
             n \in 0..5, sc \in SecurityControls }
    \cup { <<219, 8>> \o SampleTitle \o <<130, 0, 5 + Len(SamplePlain), 0>>
             \o SamplePlain }

Idle == op = "-"

Call(name, i, r) ==
  /\ bytes' = i
  /\ op' = name
  /\ out' = r
  /\ UNCHANGED <<input, called, result, api, incompleteAt, resumedFrom, key,
                 overflow_checks>>

CallControlInformationTryFrom ==
  /\ Idle
  /\ \E b \in Byte :
       Call("ControlInformation::try_from", <<b>>, ControlInformationTryFrom(b))

CallTimeParse ==
  /\ Idle
  /\ \E i \in TimeInputs : Call("Time::parse", i, TimeParse(i))

CallDateTimeParse ==
  /\ Idle
  /\ \E i \in DateTimeInputs : Call("DateTime::parse", i, DateTimeParse(i))

CallDataParse ==
  /\ Idle
  /\ \E i \in DataInputs : Call("Data::parse", i, DataParse(i))

CallApduParse ==
  /\ Idle
  /\ \E i \in ApduInputs : Call("Apdu::parse", i, ApduParse(i, overflow_checks))

CallApduParseEncrypted ==
  /\ Idle
  /\ \E i \in ApduInputs :
       Call("Apdu::parse_encrypted", i, ApduParseEncrypted(i, key, overflow_checks))

\* the bytes of a data-notification after its tag whose date-time block is
\* announced with length n: the block holds the first n bytes of the sample
\* date-time followed by filler, and body follows the block
DateTimeBlock(n) == Take(SampleDateTime \o Bytes(100, MaxTrailing + 1), n)

DataNotificationInputs ==
  { <<0, 0, 85, 57, n>> \o DateTimeBlock(n) \o body :
      n \in 0..(Len(SampleDateTime) + MaxTrailing + 1),
      body \in { Drop(SamplePlain, 18), <<0>>, <<>> } }
    \cup { <<0, 0, 85, 57, n>> \o SampleDateTime \o Drop(SamplePlain, 18) :
             n \in 0..Len(SampleDateTime) }
    \cup Prefixes(Take(Tail(SamplePlain), 17))

CallDataNotificationParse ==
  /\ Idle
  /\ \E i \in DataNotificationInputs :
       Call("DataNotification::parse", i, DataNotificationParse(i))

\* the caller is done with the result and ready for its next call
DropResult ==
  /\ op # "-"
  /\ bytes' = <<>>
  /\ op' = "-"
  /\ out' = NoResult
  /\ UNCHANGED <<input, called, result, api, incompleteAt, resumedFrom, key,
                 overflow_checks>>

NextCodec ==
  \/ DropResult
  \/ CallControlInformationTryFrom
  \/ CallTimeParse
  \/ CallDateTimeParse
  \/ CallDataParse
  \/ CallApduParse
  \/ CallApduParseEncrypted
  \/ CallDataNotificationParse

SpecCodec == Init /\ [][NextCodec]_vars

(***************************************************************************)
(* What the claims say of a byte string, read off the data model's tables  *)
(* (not through the decoders).                                             *)
(***************************************************************************)
AcceptedBytes == SegmentedBytes \cup UnsegmentedBytes

ApduTags == {15, 219}

\* the tags of the type table
TableTags == {0, 2, 5, 6, 9, 12, 15, 16, 17, 18, 20, 21, 22, 23, 24, 25, 26, 27}

TableVariant(tag) ==
  CASE tag = 0  -> "Null"
    [] tag = 2  -> "Structure"
    [] tag = 5  -> "DoubleLong"
    [] tag = 6  -> "DoubleLongUnsigned"
    [] tag = 9  -> "OctetString"
    [] tag = 12 -> "Utf8String"
    [] tag = 15 -> "Integer"
    [] tag = 16 -> "Long"
    [] tag = 17 -> "Unsigned"
    [] tag = 18 -> "LongUnsigned"
    [] tag = 20 -> "Long64"
    [] tag = 21 -> "Long64Unsigned"
    [] tag = 22 -> "Enum"
    [] tag = 23 -> "Float32"
    [] tag = 24 -> "Float64"
    [] tag = 25 -> "DateTime"
    [] tag = 26 -> "Date"
    [] tag = 27 -> "Time"

\* payload width of the tags with a fixed one
TableWidth(tag) ==
  CASE tag = 0 -> 0
    [] tag \in {15, 17, 22} -> 1
    [] tag \in {16, 18} -> 2
    [] tag \in {5, 6, 23, 27} -> 4
    [] tag = 26 -> 5
    [] tag \in {20, 21, 24} -> 8
    [] tag = 25 -> 12

TimeMax == <<23, 59, 59, 99>>

\* the four bytes b of a time are each the sentinel or within range
TimeBytesValid(b) == \A p \in 1..4 : b[p] = 255 \/ b[p] <= TimeMax[p]

SentinelOr(b) == IF b = 255 THEN None ELSE Some(b)

SignedBE(hi, lo) ==
  IF hi * 256 + lo >= 32768 THEN hi * 256 + lo - 65536 ELSE hi * 256 + lo

\* the record time holds the four bytes b as the claim maps them
TimeOf(b, time) ==
  /\ time.hour = SentinelOr(b[1])
  /\ time.minute = SentinelOr(b[2])
  /\ time.second = SentinelOr(b[3])
  /\ time.hundredth = SentinelOr(b[4])

\* the number of bytes of the value the type table reads at the head of b,
\* -1 when b does not hold a whole value of the table
RECURSIVE TableLen(_), TableLenMany(_, _)
TableLen(b) ==
  IF b = <<>> \/ b[1] \notin TableTags THEN -1
  ELSE IF b[1] = 2
    THEN IF Len(b) < 2 THEN -1
         ELSE LET Whole(n) == IF n < 0 THEN -1 ELSE 2 + n
              IN Whole(TableLenMany(Drop(b, 2), b[2]))
  ELSE IF b[1] \in {9, 12}
    THEN IF Len(b) < 2 \/ Len(b) < 2 + b[2] THEN -1 ELSE 2 + b[2]
  ELSE IF Len(b) < 1 + TableWidth(b[1]) THEN -1
  ELSE IF b[1] = 25 /\ ~TimeBytesValid(<<b[7], b[8], b[9], b[10]>>) THEN -1
  ELSE IF b[1] = 27 /\ ~TimeBytesValid(<<b[2], b[3], b[4], b[5]>>) THEN -1
  ELSE 1 + TableWidth(b[1])

TableLenMany(b, count) ==
  IF count = 0 THEN 0
  ELSE LET Both(n, m) == IF m < 0 THEN -1 ELSE n + m
           First(n) ==
             IF n < 0 THEN -1
             ELSE Both(n, TableLenMany(Drop(b, n), count - 1))
       IN First(TableLen(b))

(***************************************************************************)
(* C5: ControlInformation::try_from(b) succeeds exactly for b in           *)
(* 0x00..=0x1F and 0x60, 0x61, 0x7C, 0x7D and returns Err(b) for every     *)
(* other byte; 0x00..=0x1F give Segmented with segment = b & 0x0F and      *)
(* last_segment = bit 4 of b; 0x60, 0x61, 0x7C, 0x7D give Unsegmented      *)
(* Long/MasterSlave, Short/MasterSlave, Long/SlaveMaster,                  *)
(* Short/SlaveMaster; no other accepted byte decodes to the same value.    *)
(***************************************************************************)
C5_ControlInformation ==
  op = "ControlInformation::try_from" =>
    LET b == bytes[1] IN
    /\ out.ok <=> b \in AcceptedBytes
    /\ ~out.ok => out.err = b
    /\ b \in 0..31 =>
         /\ out.variant = "Segmented"
         /\ out.segment = b % 16
         /\ out.last_segment = ((b \div 16) % 2 = 1)
    /\ b \in UnsegmentedBytes =>
         /\ out.variant = "Unsegmented"
         /\ out.header = (IF b \in {96, 124} THEN "Long" ELSE "Short")
         /\ out.direction = (IF b \in {96, 97} THEN "MasterSlave" ELSE "SlaveMaster")
    /\ b \in AcceptedBytes =>
         \A c \in AcceptedBytes \ {b} : ControlInformationTryFrom(c) # out

C5_Witness ==
  /\ op = "ControlInformation::try_from"
  /\ bytes = <<29>>
  /\ out.ok
  /\ out.segment = 13
  /\ out.last_segment

(***************************************************************************)
(* C6: an APDU whose first tag byte is neither 0x0F nor 0xDB makes         *)
(* Apdu::parse return an error, InvalidFormat from Apdu::parse_encrypted,  *)
(* and never aborts the process; the same holds of the APDU inside the     *)
(* deciphered payload of an envelope.                                      *)
(***************************************************************************)
C6_UnknownApduTag ==
  /\ (op = "Apdu::parse" /\ bytes # <<>> /\ bytes[1] \notin ApduTags)
       => IsErr(out)
  /\ (op = "Apdu::parse_encrypted" /\ bytes # <<>> /\ bytes[1] \notin ApduTags)
       => IsErr(out) /\ out.err = "InvalidFormat"
  /\ op = "Apdu::parse_encrypted" =>
       LET UnknownInside(outer) ==
             /\ outer.kind = "Ok"
             /\ outer.val.apdu = "GeneralGloCiphering"
             /\ GloDecrypt(outer.val, key) # <<>>
             /\ GloDecrypt(outer.val, key)[1] \notin ApduTags
       IN UnknownInside(ApduParse(bytes, overflow_checks))
            => IsErr(out) /\ out.err = "InvalidFormat"

(***************************************************************************)
(* C7: Data::parse decodes every tag of the type table to the variant the  *)
(* table names, consumes the tag byte and the payload the table gives      *)
(* (fixed widths big-endian, a count and that many values for Structure,   *)
(* a length and that many bytes for OctetString and Utf8String) and        *)
(* returns the rest of the input untouched.                                *)
(***************************************************************************)
C7_DecodesTable ==
  (op = "Data::parse" /\ TableLen(bytes) >= 0) =>
    LET tag == bytes[1]
        payload == Tail(bytes)
    IN
    /\ out.kind = "Ok"
    /\ out.rest = Drop(bytes, TableLen(bytes))
    /\ out.val.t = TableVariant(tag)
    /\ tag \in {17, 22} => out.val.v = payload[1]
    /\ tag = 15 => out.val.v = SignedBE(IF payload[1] >= 128 THEN 255 ELSE 0, payload[1])
    /\ tag = 16 => out.val.v = SignedBE(payload[1], payload[2])
    /\ tag = 18 => out.val.v = payload[1] * 256 + payload[2]
    /\ tag = 5 => out.val.v = SignedBE(payload[1], payload[2]) * 65536
                                + payload[3] * 256 + payload[4]
    /\ tag = 6 => out.val.v = <<payload[1] * 256 + payload[2],
                                payload[3] * 256 + payload[4]>>
    /\ tag = 23 => out.val.v.bits = <<payload[1] * 256 + payload[2],
                                      payload[3] * 256 + payload[4]>>
    /\ tag \in {9, 12} => out.val.v = Take(Tail(payload), payload[1])
    /\ tag = 2 => Len(out.val.v) = payload[1]

(***************************************************************************)
(* C8: Data::parse never panics: a tag that it does not decode, absent     *)
(* from the type table or present but unsupported, is a parse failure,     *)
(* also when it is the tag of a value nested in a Structure.               *)
(***************************************************************************)
C8_NeverPanics ==
  op = "Data::parse" =>
    /\ out.kind # "Panic"
    /\ (bytes # <<>> /\ bytes[1] \notin TableTags) => IsErr(out)
    /\ \A d \in 1..MaxDepth :
         ( /\ Len(bytes) > 2 * d
           /\ Take(bytes, 2 * d) = Nested(d, <<>>)
           /\ bytes[2 * d + 1] \notin TableTags )
         => IsErr(out)

(***************************************************************************)
(* C9: Apdu::parse_encrypted on an envelope returns the APDU that          *)
(* Apdu::parse yields on the deciphered payload, and only when that parse  *)
(* consumes the whole payload; a payload with trailing bytes, truncated or *)
(* otherwise unparsable gives InvalidFormat; an APDU that is not an        *)
(* envelope is returned unchanged.                                         *)
(***************************************************************************)
C9_InnerApdu ==
  op = "Apdu::parse_encrypted" =>
    LET Inner(outer, inner) ==
          IF inner.kind = "Ok" /\ inner.rest = <<>>
            THEN out.kind = "Ok" /\ out.val = inner.val /\ out.rest = outer.rest
            ELSE IsErr(out) /\ out.err = "InvalidFormat"
        Outer(outer) ==
          outer.kind = "Ok" =>
            IF outer.val.apdu = "GeneralGloCiphering"
              THEN Inner(outer, ApduParse(GloDecrypt(outer.val, key), overflow_checks))
              ELSE out = outer
    IN Outer(ApduParse(bytes, overflow_checks))

(***************************************************************************)
(* C10: Time::parse maps each of its four bytes to None when it is 0xFF,   *)
(* to Some(b) when b is within 0..=23, 0..=59, 0..=59, 0..=99              *)
(* respectively, and fails on any other byte; DateTime::parse does the     *)
(* same with its time, maps the offset 0x8000 and the clock status 0xFF to *)
(* None, and accepts every value of year, month, day and weekday.          *)
(***************************************************************************)
C10_TimeAndDateTime ==
  /\ (op = "Time::parse" /\ Len(bytes) >= 4) =>
       IF TimeBytesValid(bytes)
         THEN /\ out.kind = "Ok"
              /\ TimeOf(bytes, out.val)
              /\ out.rest = Drop(bytes, 4)
         ELSE IsErr(out)
  /\ (op = "DateTime::parse" /\ Len(bytes) >= 12) =>
       IF TimeBytesValid(<<bytes[6], bytes[7], bytes[8], bytes[9]>>)
         THEN /\ out.kind = "Ok"
              /\ TimeOf(<<bytes[6], bytes[7], bytes[8], bytes[9]>>, out.val.time)
              /\ out.val.date.year = bytes[1] * 256 + bytes[2]
              /\ out.val.date.month = bytes[3]
              /\ out.val.date.day_of_month = bytes[4]
              /\ out.val.date.day_of_week = bytes[5]
              /\ out.val.offset_minutes =
                   (IF bytes[10] = 128 /\ bytes[11] = 0
                      THEN None ELSE Some(SignedBE(bytes[10], bytes[11])))
              /\ out.val.clock_status = SentinelOr(bytes[12])
              /\ out.rest = Drop(bytes, 12)
         ELSE IsErr(out)

C10_Witness ==
  /\ op = "DateTime::parse"
  /\ out.kind = "Ok"
  /\ bytes[10] = 128
  /\ out.val.offset_minutes = None
  /\ out.val.clock_status = None
  /\ out.val.time.hour = Some(19)

(***************************************************************************)
(* The projection called on its own: a caller hands ObisMap::parse a       *)
(* data-notification, or Dlms::decrypt the telegram that carries it.  The  *)
(* notification body is a sequence of register items, each OctetString     *)
(* (obis), value and an optional Structure([Integer(scaler), Enum(unit)]), *)
(* inline or wrapped in a Structure of its own.                            *)
(***************************************************************************)
MaxRegisters == 3

ObisCodes == { <<1, 0, 2, 8, 0, 255>>, <<1, 0, 1, 8, 0, 255>>, <<0, 0, 96, 1, 0, 255>> }

\* the values a register item may hold, by position
RegisterValues ==
  << Data("LongUnsigned", 100),
     Data("DoubleLongUnsigned", <<0, 100>>),
     Data("DoubleLongUnsigned", <<1, 57920>>),
     Data("Long", 5),
     Data("OctetString", <<75, 70, 77>>) >>

\* <<scaler, unit>>: the sentinel, pairs of the Unit table, unit codes the
\* table lacks, and scalers at the limits of the factor's type
ScalerUnitPairs ==
  { <<0, 255>>, <<0, 30>>, <<-3, 30>>, <<2, 27>>, <<-1, 254>>, <<9, 33>>,
    <<0, 0>>, <<1, 58>>, <<-1, 59>>, <<0, 68>>, <<3, 69>>, <<0, 73>>, <<-2, 253>>,
    <<10, 0>>, <<-128, 73>>, <<1, 255>>, <<1, 0>>, <<10, 30>>, <<-10, 27>> }

ScalerUnit(p) == Data("Structure", <<Data("Integer", p[1]), Data("Enum", p[2])>>)

\* what a meter puts in a register item: the form, the code, the position
\* of the value in RegisterValues, and no scaler_unit or one pair
Reading(nested, obis, value, pairs) ==
  [nested |-> nested, obis |-> obis, pairs |-> pairs, value |-> value]

Readings ==
  { Reading(nested, obis, value, pairs) :
      nested \in BOOLEAN, obis \in ObisCodes, value \in DOMAIN RegisterValues,
      pairs \in { <<>> } \cup { <<p>> : p \in ScalerUnitPairs } }

\* the readings that bodies of several registers are made of
ReadingPool ==
  UNION { { Reading(FALSE, obis, 1, << <<0, 30>> >>),
            Reading(TRUE, obis, 2, << <<-1, 27>> >>),
            Reading(TRUE, obis, 3, << <<0, 255>> >>),
            Reading(FALSE, obis, 4, <<>>) } : obis \in ObisCodes }

RECURSIVE ReadingSeqs(_)
ReadingSeqs(n) ==
  IF n = 0 THEN { <<>> }
  ELSE { b \o <<r>> : b \in ReadingSeqs(n - 1), r \in ReadingPool }

NotificationReadings ==
  { <<r>> : r \in Readings } \cup UNION { ReadingSeqs(n) : n \in 0..MaxRegisters }

RegisterItem(r) ==
  LET Fields(tail) == <<Data("OctetString", r.obis), RegisterValues[r.value]>> \o tail
      Item(fields) == IF r.nested THEN <<Data("Structure", fields)>> ELSE fields
  IN Item(Fields(IF r.pairs = <<>> THEN <<>> ELSE <<ScalerUnit(r.pairs[1])>>))

\* the notification body that holds the readings rs, in order
RECURSIVE NotificationBody(_)
NotificationBody(rs) ==
  IF rs = <<>> THEN <<>> ELSE RegisterItem(Head(rs)) \o NotificationBody(Tail(rs))

\* the date-time of the sample notification, decoded
SampleDateTimeValue == DateTimeParse(SampleDateTime).val

Notification(body) ==
  [apdu |-> "DataNotification",
   date_time |-> SampleDateTimeValue,
   long_invoke_id_and_priority |-> Words(<<0, 0, 85, 57>>),
   notification_body |-> Data("Structure", body)]

\* the bytes a meter sends for a Data value
RECURSIVE Encode(_), EncodeAll(_)
Encode(d) ==
  CASE d.t = "OctetString" -> <<9, Len(d.v)>> \o d.v
    [] d.t = "LongUnsigned" -> <<18, d.v \div 256, d.v % 256>>
    [] d.t = "DoubleLongUnsigned" ->
         <<6, d.v[1] \div 256, d.v[1] % 256, d.v[2] \div 256, d.v[2] % 256>>
    [] d.t = "Long" -> <<16, ((d.v + 65536) % 65536) \div 256, (d.v + 65536) % 256>>
    [] d.t = "Integer" -> <<15, (d.v + 256) % 256>>
    [] d.t = "Enum" -> <<22, d.v>>
    [] d.t = "Structure" -> <<2, Len(d.v)>> \o EncodeAll(d.v)

EncodeAll(ds) == IF ds = <<>> THEN <<>> ELSE Encode(Head(ds)) \o EncodeAll(Tail(ds))

\* the unsegmented telegram that carries the notification in the clear
NotificationTelegrams(body) ==
  << LongFrame(125, Bytes(240, 5) \o Take(SamplePlain, 6) \o SampleDateTime
                      \o Encode(Data("Structure", body))) >>

CallObisMapParse ==
  /\ Idle
  /\ \E rs \in NotificationReadings :
       Call("ObisMap::parse", NotificationBody(rs),
            ObisMapParse(Notification(NotificationBody(rs)), overflow_checks))

CallDlmsDecrypt ==
  /\ Idle
  /\ \E rs \in NotificationReadings :
       Call("Dlms::decrypt", NotificationTelegrams(NotificationBody(rs)),
            DlmsDecrypt(NotificationTelegrams(NotificationBody(rs)), key,
                        overflow_checks))

NextObis ==
  \/ DropResult
  \/ CallObisMapParse
  \/ CallDlmsDecrypt

SpecObis == Init /\ [][NextObis]_vars

(***************************************************************************)
(* What the claims say of a notification body, read off the data model's   *)
(* description of a register item (not through the decoder).               *)
(***************************************************************************)
IsScalerUnit(d) ==
  /\ d.t = "Structure"
  /\ Len(d.v) = 2
  /\ d.v[1].t = "Integer"
  /\ d.v[2].t = "Enum"

HasScalerUnit(fields) == Len(fields) >= 3 /\ IsScalerUnit(fields[3])

\* the item whose fields start at fields: pairs is <<>> or one
\* <<scaler, unit>>
ItemOf(fields) ==
  [obis |-> fields[1].v,
   pairs |-> IF HasScalerUnit(fields)
               THEN << <<fields[3].v[1].v, fields[3].v[2].v>> >>
               ELSE <<>>,
   value |-> fields[2]]

\* the register items of a well-formed body, in order
RECURSIVE ItemsOf(_)
ItemsOf(body) ==
  IF body = <<>> THEN <<>>
  ELSE IF body[1].t = "Structure"
    THEN <<ItemOf(body[1].v)>> \o ItemsOf(Tail(body))
    ELSE <<ItemOf(body)>>
           \o ItemsOf(Drop(body, IF HasScalerUnit(body) THEN 3 ELSE 2))

Sentinel == <<0, 255>>

SameData(x, y) == x.t = y.t /\ x.v = y.v

\* no item after the k-th has the code of the k-th
LastOccurrence(items, k) ==
  \A j \in (k + 1)..Len(items) : items[j].obis # items[k].obis

\* the map holds a register for the code with this value and unit
Holds(map, obis, value, unit) ==
  \E j \in 1..Len(map) :
    /\ map[j].obis_code = obis
    /\ SameData(map[j].value, value)
    /\ map[j].unit = unit

Projected == op \in {"ObisMap::parse", "Dlms::decrypt"}

\* the notification body of the last projection
ProjectedBody ==
  IF op = "ObisMap::parse" THEN bytes
  ELSE DataParse(Drop(bytes[1].user_data, 23)).val.v

(***************************************************************************)
(* C11: projecting a data-notification whose body contains a register item *)
(* with the scaler/unit pair (0, 0xFF), inline or nested, succeeds, and    *)
(* the register of its code (the item being the last of that code) has the *)
(* item's value unchanged and no unit.                                     *)
(***************************************************************************)
C11_SentinelKeepsValue ==
  Projected =>
    \A k \in 1..Len(ItemsOf(ProjectedBody)) :
      ( /\ ItemsOf(ProjectedBody)[k].pairs = <<Sentinel>>
        /\ LastOccurrence(ItemsOf(ProjectedBody), k) )
      => /\ out.kind = "Ok"
         /\ Holds(out.val, ItemsOf(ProjectedBody)[k].obis,
                  ItemsOf(ProjectedBody)[k].value, None)

\* the register that the projection holds for the code of items[k]
RegisterOf(map, obis) == map[CHOOSE j \in 1..Len(map) : map[j].obis_code = obis]

HasRegister(map, obis) == \E j \in 1..Len(map) : map[j].obis_code = obis

\* a scaler/unit pair was applied to the item
Applied(item) == item.pairs # <<>> /\ item.pairs # <<Sentinel>>

SixteenBit == {"Long", "LongUnsigned"}

ThirtyTwoBit == {"DoubleLong", "DoubleLongUnsigned"}

\* the float that scaling makes of the source value, whatever the factor
ScaledFrom(reg, t, source) ==
  /\ reg.value.t = t
  /\ reg.value.v.scaled
  /\ reg.value.v.value = source

(***************************************************************************)
(* C12 as stated: after projection every register to which a scaler/unit   *)
(* pair was applied holds a float, Float32 for a 16-bit source and Float64 *)
(* for a 32-bit source, and every other register holds its original value. *)
(***************************************************************************)
C12_Original ==
  (Projected /\ out.kind = "Ok") =>
    \A k \in 1..Len(ItemsOf(ProjectedBody)) :
      LastOccurrence(ItemsOf(ProjectedBody), k) =>
        /\ HasRegister(out.val, ItemsOf(ProjectedBody)[k].obis)
        /\ IF Applied(ItemsOf(ProjectedBody)[k])
             THEN /\ RegisterOf(out.val, ItemsOf(ProjectedBody)[k].obis).unit # None
                  /\ RegisterOf(out.val, ItemsOf(ProjectedBody)[k].obis).value.t
                       \in {"Float32", "Float64"}
                  /\ ItemsOf(ProjectedBody)[k].value.t \in SixteenBit =>
                       RegisterOf(out.val, ItemsOf(ProjectedBody)[k].obis).value.t
                         = "Float32"
                  /\ ItemsOf(ProjectedBody)[k].value.t \in ThirtyTwoBit =>
                       RegisterOf(out.val, ItemsOf(ProjectedBody)[k].obis).value.t
                         = "Float64"
             ELSE /\ RegisterOf(out.val, ItemsOf(ProjectedBody)[k].obis).unit = None
                  /\ SameData(RegisterOf(out.val, ItemsOf(ProjectedBody)[k].obis).value,
                              ItemsOf(ProjectedBody)[k].value)

\* what C12 amended says of one item and the register of its code
RegisterInvariant(item, reg) ==
  IF Applied(item)
    THEN /\ reg.unit = Some(item.pairs[1][2])
         /\ CASE item.value.t = "LongUnsigned" ->
                   ScaledFrom(reg, "Float32", <<item.value.v>>)
              [] item.value.t = "DoubleLongUnsigned" ->
                   ScaledFrom(reg, "Float64", item.value.v)
              [] OTHER -> SameData(reg.value, item.value)
    ELSE /\ reg.unit = None
         /\ SameData(reg.value, item.value)

\* every item that is the last of its code has a register in the map, and
\* the register is what RegisterInvariant says of the item
RegistersAgree(items, map) ==
  \A k \in 1..Len(items) :
    LastOccurrence(items, k) =>
      /\ HasRegister(map, items[k].obis)
      /\ RegisterInvariant(items[k], RegisterOf(map, items[k].obis))

(***************************************************************************)
(* C12 amended: after projection every register to which a scaler/unit     *)
(* pair was applied has the unit of the pair and holds a Float32 made from *)
(* its value when the source was a LongUnsigned, a Float64 when it was a   *)
(* DoubleLongUnsigned, and its original tagged value when the source was   *)
(* any other variant; every register to which no pair was applied has no   *)
(* unit and holds exactly its original tagged value.                       *)
(***************************************************************************)
C12_RegisterInvariant ==
  (Projected /\ out.kind = "Ok") => RegistersAgree(ItemsOf(ProjectedBody), out.val)

C12_Witness ==
  /\ op = "Dlms::decrypt"
  /\ out.kind = "Ok"
  /\ Len(out.val) = 3
  /\ out.val[1].value.t = "Long" /\ out.val[1].unit = None
  /\ out.val[2].value.t = "Float32" /\ out.val[2].unit = Some(30)
  /\ out.val[3].value.t = "Float64" /\ out.val[3].unit = Some(27)

\* the unit codes that the Unit table lacks
UnknownUnits == {0, 58, 59, 68, 69} \cup (73..253)

\* the projection returned no map: an error from ObisMap::parse,
\* InvalidFormat from Dlms::decrypt
ProjectionFailed ==
  \/ op = "ObisMap::parse" /\ IsErr(out)
  \/ op = "Dlms::decrypt" /\ out.kind = "Err" /\ out.err = "InvalidFormat"

(***************************************************************************)
(* C13: a register item whose scaler/unit pair is consumed and whose unit  *)
(* code is not in the Unit table makes the projection fail: ObisMap::parse *)
(* returns an error and no map, Dlms::decrypt returns InvalidFormat.       *)
(***************************************************************************)
C13_UnknownUnitFails ==
  Projected =>
    \A k \in 1..Len(ItemsOf(ProjectedBody)) :
      ( /\ Applied(ItemsOf(ProjectedBody)[k])
        /\ ItemsOf(ProjectedBody)[k].pairs[1][2] \in UnknownUnits )
      => ProjectionFailed

\* x comes before y in the order of the six-tuples (a, b, c, d, e, f)
LexBefore(x, y) ==
  \E p \in 1..6 : x[p] < y[p] /\ \A q \in 1..(p - 1) : x[q] = y[q]

\* map has the codes of items and no other, in strictly increasing order,
\* and under each code what the last item of that code gives
IsObisMapOf(items, map) ==
  /\ \A j \in 1..Len(map) : \E k \in 1..Len(items) : items[k].obis = map[j].obis_code
  /\ \A j \in 1..(Len(map) - 1) : LexBefore(map[j].obis_code, map[j + 1].obis_code)
  /\ \A k \in 1..Len(items) :
       /\ HasRegister(map, items[k].obis)
       /\ LastOccurrence(items, k) =>
            \A j \in 1..Len(map) :
              map[j].obis_code = items[k].obis => RegisterInvariant(items[k], map[j])

(***************************************************************************)
(* C14: the ObisMap of a successful projection has exactly one entry per   *)
(* distinct OBIS code of the register sequence, its entries are in         *)
(* strictly increasing lexicographic order of their codes, and the entry   *)
(* of a code holds the value and unit of the last item with that code.     *)
(***************************************************************************)
C14_ObisMap ==
  (Projected /\ out.kind = "Ok") => IsObisMapOf(ItemsOf(ProjectedBody), out.val)

C14_Witness ==
  /\ op = "ObisMap::parse"
  /\ out.kind = "Ok"
  /\ Len(ItemsOf(bytes)) = 3
  /\ Len(out.val) = 2
  /\ ItemsOf(bytes)[1].obis = ItemsOf(bytes)[3].obis
  /\ ItemsOf(bytes)[1].value.t # ItemsOf(bytes)[3].value.t
  /\ LexBefore(ItemsOf(bytes)[2].obis, ItemsOf(bytes)[1].obis)
  /\ out.val[2].value.t = "Float64"

\* r asks for more input, and for no more than the missing bytes when it
\* names a count (needed = 0 is Needed::Unknown)
IncompleteWithin(r, missing) == r.kind = "Incomplete" /\ r.needed <= missing

\* the number of bytes the last call consumed
Consumed == Len(bytes) - Len(out.rest)

(***************************************************************************)
(* C15: when Apdu::parse succeeds on a byte string, Apdu::parse on every   *)
(* proper prefix of the bytes it consumed returns Incomplete, never a      *)
(* success or an error, and a size hint is at most the number of bytes     *)
(* that are missing.                                                       *)
(***************************************************************************)
C15_IncrementalSafe ==
  (op = "Apdu::parse" /\ out.kind = "Ok") =>
    \A n \in 0..(Consumed - 1) :
      IncompleteWithin(ApduParse(Take(bytes, n), overflow_checks), Consumed - n)

\* b starts with the tag, the literal 0x08 and the system title of an
\* envelope and holds its whole block length
HasBlockLen(b) ==
  /\ Len(b) >= 11
  /\ b[1] = 219
  /\ b[2] = 8
  /\ b[11] = 130 => Len(b) >= 13

BlockLen(b) == IF b[11] = 130 THEN b[12] * 256 + b[13] ELSE b[11]

\* the bytes of b after its block length
AfterBlockLen(b) == Drop(b, IF b[11] = 130 THEN 13 ELSE 11)

(***************************************************************************)
(* C16: on an envelope whose block length, in either form, is less than 5, *)
(* GeneralGloCiphering::parse does not abort and does not go on with a     *)
(* wrapped length: Apdu::parse returns an error, and                       *)
(* Apdu::parse_encrypted returns InvalidFormat.                            *)
(***************************************************************************)
C16_ShortBlock ==
  /\ (op = "Apdu::parse" /\ HasBlockLen(bytes) /\ BlockLen(bytes) < 5)
       => IsErr(out)
  /\ (op = "Apdu::parse_encrypted" /\ HasBlockLen(bytes) /\ BlockLen(bytes) < 5)
       => IsErr(out) /\ out.err = "InvalidFormat"

(***************************************************************************)
(* hdlc.rs: the LLC header and HdlcDataLinkLayer::next_frame.  A frame is  *)
(* [information, segmented].  The result is kind "Ok" with the remaining   *)
(* frames and the joined information, or kind "Err" with the Error.        *)
(***************************************************************************)
LlcHeader(destination, message_type, quality) ==
  [destination |-> destination, message_type |-> message_type, quality |-> quality]

ParseLlcHeader(information) ==
  LET MessageType(llc, destination) ==
        CASE llc.val[2] = 230 ->
               NomOk(llc.rest, LlcHeader(destination, "Command", llc.val[3]))
          [] llc.val[2] = 231 ->
               NomOk(llc.rest, LlcHeader(destination, "Response", llc.val[3]))
          [] OTHER -> DlmsErr("InvalidFormat", 0)
      Destination(llc) ==
        IF llc.kind # "Ok" THEN DlmsErr("InvalidFormat", 0)
        ELSE CASE llc.val[1] = 230 -> MessageType(llc, "Unicast")
               [] llc.val[1] = 255 -> MessageType(llc, "Broadcast")
               [] OTHER -> DlmsErr("InvalidFormat", 0)
  IN Destination(TupleU8Complete(information, 3))

ValidateLlcHeader(llc) ==
  /\ llc.quality = 0
  /\ llc.destination \in {"Unicast", "Broadcast"}
  /\ llc.message_type \in {"Command", "Response"}

\* the loop over frames[1..]: information grows by every frame up to and
\* including the first that is not segmented, len counts them
RECURSIVE HdlcJoin(_, _, _, _)
HdlcJoin(frames, j, information, len) ==
  IF j > Len(frames) THEN DlmsErr("Incomplete", 0)
  ELSE IF ~frames[j].segmented
    THEN NomOk(Drop(frames, len + 1), information \o frames[j].information)
    ELSE HdlcJoin(frames, j + 1, information \o frames[j].information, len + 1)

HdlcNextFrame(frames) ==
  LET Single(hdr) ==
        IF hdr.kind # "Ok" THEN hdr
        ELSE IF ValidateLlcHeader(hdr.val) THEN NomOk(Tail(frames), hdr.rest)
        ELSE DlmsErr("InvalidFormat", 0)
      Segmented(hdr) ==
        IF hdr.kind # "Ok" THEN hdr
        ELSE IF ~ValidateLlcHeader(hdr.val) THEN DlmsErr("InvalidFormat", 0)
        ELSE HdlcJoin(frames, 2, hdr.rest, 0)
  IN IF frames = <<>> THEN DlmsErr("Incomplete", 0)
     ELSE IF ~frames[1].segmented THEN Single(ParseLlcHeader(frames[1].information))
     ELSE Segmented(ParseLlcHeader(frames[1].information))

(***************************************************************************)
(* The HDLC data link layer as a caller sees it: one call of next_frame on *)
(* a slice of up to MaxFrames frames.                                      *)
(***************************************************************************)
MaxFrames == 3

HdlcFrame(information, segmented) ==
  [information |-> information, segmented |-> segmented]

\* information fields: too short for an LLC header, well-formed headers of
\* either direction and destination, and headers with one wrong byte
HdlcInformation ==
  { <<>>, <<230, 231>>, <<230, 231, 0>>, <<230, 231, 0, 1, 2>>, <<230, 230, 0, 3>>,
    <<255, 231, 0, 4>>, <<230, 231, 1, 5>>, <<229, 231, 0, 6>>, <<230, 232, 0, 7>> }

HdlcFrames == { HdlcFrame(i, s) : i \in HdlcInformation, s \in BOOLEAN }

\* the slices of n frames
HdlcFrameSeqs(n) == [1..n -> HdlcFrames]

HdlcInputs == UNION { HdlcFrameSeqs(n) : n \in 0..MaxFrames }

CallHdlcNextFrame ==
  /\ Idle
  /\ \E frames \in HdlcInputs :
       Call("HdlcDataLinkLayer::next_frame", frames, HdlcNextFrame(frames))

NextHdlc == DropResult \/ CallHdlcNextFrame

SpecHdlc == Init /\ [][NextHdlc]_vars

(***************************************************************************)
(* What the claims say of an LLC header, read off the first three bytes of *)
(* the first frame's information (not through parse_llc_header).           *)
(***************************************************************************)
HdlcCalled == op = "HdlcDataLinkLayer::next_frame"

HasLlcHeader == bytes # <<>> /\ Len(bytes[1].information) >= 3

\* the peer's role and whether broadcast is allowed, as the claim has them
LlcAccepted(information, peer_is_server, broadcast_allowed) ==
  /\ information[1] = 230 \/ (broadcast_allowed /\ information[1] = 255)
  /\ information[2] = (IF peer_is_server THEN 230 ELSE 231)
  /\ information[3] = 0

\* a header no configuration accepts
LlcBadField(information) ==
  \/ information[1] \notin {230, 255}
  \/ information[2] \notin {230, 231}
  \/ information[3] # 0

HdlcIncomplete == out.kind = "Err" /\ out.err = "Incomplete"

HdlcInvalidFormat == out.kind = "Err" /\ out.err = "InvalidFormat"

\* the sequence ends before a frame that is not segmented
HdlcUnfinished == \A j \in 1..Len(bytes) : bytes[j].segmented

(***************************************************************************)
(* C17: next_frame fails with Incomplete when the first frame's            *)
(* information is shorter than an LLC header, when the sequence is empty   *)
(* and when a segmented sequence ends before its last frame; it fails with *)
(* InvalidFormat when the LLC header is there with a wrong field.          *)
(***************************************************************************)
C17_FailureClasses ==
  HdlcCalled =>
    /\ bytes = <<>> => HdlcIncomplete
    /\ (bytes # <<>> /\ Len(bytes[1].information) < 3) => HdlcIncomplete
    /\ (HasLlcHeader /\ LlcBadField(bytes[1].information)) => HdlcInvalidFormat
    /\ (HasLlcHeader /\ ~LlcBadField(bytes[1].information) /\ HdlcUnfinished)
         => HdlcIncomplete

(***************************************************************************)
(* C18: whatever the peer's role and whether or not broadcast is allowed,  *)
(* the LLC header is accepted exactly if its destination is 0xE6 (or 0xFF  *)
(* with broadcast allowed), its source is 0xE6 when the peer is a server   *)
(* and 0xE7 otherwise, and its control byte is 0; a header that is not     *)
(* accepted is rejected with InvalidFormat.                                *)
(***************************************************************************)
C18_RoleValidation ==
  (HdlcCalled /\ HasLlcHeader) =>
    \A peer_is_server \in BOOLEAN, broadcast_allowed \in BOOLEAN :
      HdlcInvalidFormat <=>
        ~LlcAccepted(bytes[1].information, peer_is_server, broadcast_allowed)

\* the last call was DataNotification::parse on bytes that hold the length
\* of the date-time block
DateTimeBlockRead == op = "DataNotification::parse" /\ Len(bytes) >= 5

(***************************************************************************)
(* C19: DataNotification::parse succeeds only if the length of the         *)
(* date-time block is 12, the length of a DateTime: with any other length, *)
(* shorter or longer with more bytes in the block, it does not succeed;    *)
(* with length 12, the sample date-time and a body after it, it succeeds   *)
(* with that date-time and leaves what follows the body.                   *)
(***************************************************************************)
C19_ExactDateTimeBlock ==
  DateTimeBlockRead =>
    /\ bytes[5] # 12 => out.kind # "Ok"
    /\ (bytes = Take(Tail(SamplePlain), 17) \o Drop(SamplePlain, 18))
         => /\ out.kind = "Ok"
            /\ out.rest = <<>>
            /\ out.val.date_time = SampleDateTimeValue

\* the fields of an envelope as the grammar lays them out after the block
\* length: the security control byte, four counter bytes when bit 0x10 or
\* bit 0x20 of it is set, and BlockLen - 5 payload bytes
EnvSecurityControl(b) == AfterBlockLen(b)[1]

EnvCounterLen(b) ==
  IF BitAnd(EnvSecurityControl(b), 16) # 0 \/ BitAnd(EnvSecurityControl(b), 32) # 0
    THEN 4 ELSE 0

EnvLen(b) == 1 + EnvCounterLen(b) + (BlockLen(b) - 5)

EnvelopeRead ==
  /\ op = "Apdu::parse"
  /\ HasBlockLen(bytes)
  /\ BlockLen(bytes) >= 5
  /\ AfterBlockLen(bytes) # <<>>

(***************************************************************************)
(* C20: on an envelope with its literal 0x08, system title, block length   *)
(* (at least 5) and security control byte, GeneralGloCiphering::parse      *)
(* succeeds exactly if the counter (present iff the authentication or the  *)
(* encryption bit is set) and block length - 5 payload bytes are there,    *)
(* and is Incomplete otherwise; its value holds the system title, the      *)
(* security control byte, the counter or None, and exactly those payload   *)
(* bytes, and every byte that follows is left as remaining input.          *)
(***************************************************************************)
C20_EnvelopeGrammar ==
  EnvelopeRead =>
    IF Len(AfterBlockLen(bytes)) < EnvLen(bytes) THEN out.kind = "Incomplete"
    ELSE /\ out.kind = "Ok"
         /\ out.val.apdu = "GeneralGloCiphering"
         /\ out.val.system_title = SubSeq(bytes, 3, 10)
         /\ out.val.security_control = EnvSecurityControl(bytes)
         /\ out.val.invocation_counter
              = SubSeq(AfterBlockLen(bytes), 2, 1 + EnvCounterLen(bytes))
         /\ out.val.payload
              = SubSeq(AfterBlockLen(bytes), 2 + EnvCounterLen(bytes), EnvLen(bytes))
         /\ out.rest = Drop(AfterBlockLen(bytes), EnvLen(bytes))

\* an authenticated, unencrypted envelope was read, counter and payload,
\* and bytes after it were left
C20_Witness ==
  /\ EnvelopeRead
  /\ EnvSecurityControl(bytes) = 16
  /\ out.kind = "Ok"
  /\ Len(out.val.invocation_counter) = 4
  /\ out.val.payload # <<>>
  /\ out.rest # <<>>

\* the item's value is one that scale! is applied to
Scaled(item) ==
  Applied(item) /\ item.value.t \in {"LongUnsigned", "DoubleLongUnsigned"}

RECURSIVE Pow10(_)
Pow10(n) == IF n = 0 THEN 1 ELSE 10 * Pow10(n - 1)

\* factor is 10^|scaler|; beyond 10^9 no value of the factor's type (i32) is
FactorOf(factor, scaler) ==
  /\ (IF scaler < 0 THEN -scaler ELSE scaler) <= 9
  /\ factor = Pow10(IF scaler < 0 THEN -scaler ELSE scaler)

(***************************************************************************)
(* C21: for every register item whose value is scaled, whatever its signed *)
(* 8-bit scaler, the projection does not abort or hang in the factor loop, *)
(* and the register it gives for the item holds the value multiplied by    *)
(* 10^|scaler| when scaler >= 0 and divided by 10^|scaler| when            *)
(* scaler < 0.                                                             *)
(***************************************************************************)
C21_ScaleFactor ==
  Projected =>
    \A k \in 1..Len(ItemsOf(ProjectedBody)) :
      Scaled(ItemsOf(ProjectedBody)[k]) =>
        /\ ~Aborted(out)
        /\ (out.kind = "Ok" /\ LastOccurrence(ItemsOf(ProjectedBody), k)) =>
             /\ FactorOf(RegisterOf(out.val, ItemsOf(ProjectedBody)[k].obis).value.v.factor,
                         ItemsOf(ProjectedBody)[k].pairs[1][1])
             /\ RegisterOf(out.val, ItemsOf(ProjectedBody)[k].obis).value.v.divide
                  = (ItemsOf(ProjectedBody)[k].pairs[1][1] < 0)

\* the position of the first frame that is not segmented
FinalFrame(frames) == CHOOSE k \in 1..Len(frames) :
  ~frames[k].segmented /\ \A j \in 1..(k - 1) : frames[j].segmented

\* the information of frames 1..k joined, the LLC header of the first removed
RECURSIVE JoinedInformation(_, _)
JoinedInformation(frames, k) ==
  IF k = 1 THEN Drop(frames[1].information, 3)
  ELSE JoinedInformation(frames, k - 1) \o frames[k].information

(***************************************************************************)
(* C22: when next_frame succeeds, the frames it returns as remaining input *)
(* are exactly those after the first non-segmented frame, the last whose   *)
(* information is in the returned bytes: after joining a segmented         *)
(* sequence the final frame is not in the remainder, so a call on the      *)
(* remainder does not deliver it again.                                    *)
(***************************************************************************)
C22_RemainderAfterJoin ==
  (HdlcCalled /\ out.kind = "Ok") =>
    /\ out.val = JoinedInformation(bytes, FinalFrame(bytes))
    /\ out.rest = Drop(bytes, FinalFrame(bytes))

(***************************************************************************)
(* Long segmented messages: one call of parse_mbus on up to MaxSegments    *)
(* Segmented telegrams in sequence, none marked last, followed by nothing  *)
(* or by one telegram of any control information.                          *)
(***************************************************************************)
MaxSegments == 16

\* the j-th telegram of the sequence (j from 0): segment field j mod 16,
\* not last, two SAP bytes and one payload byte
SegmentTelegram(j) == LongFrame(j % 16, <<1, 2, j>>)

SegmentRun(n) == [j \in 1..n |-> SegmentTelegram(j - 1)]

SegmentInputs ==
  { SegmentRun(n) : n \in 0..MaxSegments }
    \cup { SegmentRun(n) \o <<LongFrame(ci, <<3, 4, 5>>)>> :
             n \in 0..MaxSegments, ci \in Byte }

CallMBusParseMbus ==
  /\ Idle
  /\ \E ts \in SegmentInputs :
       Call("MBusDataLinkLayer::parse_mbus", ts, MBusParseMbus(ts))

NextSegments == DropResult \/ CallMBusParseMbus

SpecSegments == Init /\ [][NextSegments]_vars

\* the telegrams before the k-th are Segmented, not last, with segment
\* fields 0, 1, 2, ... in sequence
InSequence(ts, k) ==
  \A j \in 1..(k - 1) :
    /\ IsLong(ts[j])
    /\ ts[j].control_information = j - 1

(***************************************************************************)
(* C23: when the first 16 telegrams of a call are Segmented telegrams in   *)
(* sequence, none marked last, and the 17th is a Segmented telegram, the   *)
(* call returns ChecksumMismatch whatever the control byte of the 17th: no *)
(* segmented message of more than 16 telegrams is reassembled.             *)
(***************************************************************************)
C23_SeventeenthSegment ==
  ( /\ op = "MBusDataLinkLayer::parse_mbus"
    /\ Len(bytes) >= 17
    /\ InSequence(bytes, 17)
    /\ IsLong(bytes[17])
    /\ bytes[17].control_information \in SegmentedBytes )
  => (out.kind = "Failure" /\ out.err = "ChecksumMismatch")

\* the 17th telegram carried the segment field that follows 15 in the
\* field's own count, marked last, and was refused
C23_Witness ==
  /\ op = "MBusDataLinkLayer::parse_mbus"
  /\ Len(bytes) = 17
  /\ InSequence(bytes, 17)
  /\ bytes[17].control_information = 16
  /\ out.kind = "Failure"
  /\ out.err = "ChecksumMismatch"

(***************************************************************************)
(* Several messages in one buffer: a call of the M-Bus reassembly, by      *)
(* next_frame or by Dlms::decrypt, on up to MaxMessages complete messages  *)
(* followed by other telegrams, and then calls on what each call left.     *)
(***************************************************************************)
MaxMessages == 2

\* complete messages: unsegmented, one segment marked last, two segments,
\* and the sample notification enciphered in one telegram and in the clear
\* in two segments
Messages ==
  { <<LongFrame(96, Bytes(144, 9))>>,
    <<LongFrame(16, Bytes(80, 3))>>,
    <<LongFrame(0, Bytes(16, 3)), LongFrame(17, Bytes(96, 4))>>,
    <<LongFrame(125, Bytes(240, 5) \o SampleEnvelope)>>,
    <<LongFrame(0, Bytes(8, 2) \o Take(SamplePlain, 20)),
      LongFrame(17, Bytes(24, 2) \o Drop(SamplePlain, 20))>> }

\* what may follow them: nothing, telegrams no call accepts first, the
\* start of a segmented message
Followers ==
  { <<>>, <<ShortFrame>>, <<LongFrame(2, Bytes(64, 4))>>, <<LongFrame(32, Bytes(128, 3))>>,
    <<LongFrame(0, Bytes(32, 1))>>, <<LongFrame(0, Bytes(16, 3))>> }

RECURSIVE MessageSeqs(_)
MessageSeqs(n) ==
  IF n = 0 THEN { <<>> }
  ELSE { m \o ms : m \in Messages, ms \in MessageSeqs(n - 1) }

Buffers ==
  { ms \o x : ms \in UNION { MessageSeqs(n) : n \in 0..MaxMessages }, x \in Followers }

\* the entry point name applied to telegrams
CallOn(name, ts) ==
  IF name = "MBusDataLinkLayer::next_frame" THEN MBusNextFrame(ts)
  ELSE DlmsDecrypt(ts, key, overflow_checks)

CallNextFrame ==
  /\ Idle
  /\ \E ts \in Buffers :
       Call("MBusDataLinkLayer::next_frame", ts, CallOn("MBusDataLinkLayer::next_frame", ts))

CallDecrypt ==
  /\ Idle
  /\ \E ts \in Buffers : Call("Dlms::decrypt", ts, CallOn("Dlms::decrypt", ts))

\* the caller calls the same entry point on the telegrams the call left
CallOnRemainder ==
  /\ op \in {"MBusDataLinkLayer::next_frame", "Dlms::decrypt"}
  /\ out.kind = "Ok"
  /\ out.rest # <<>>
  /\ Call(op, out.rest, CallOn(op, out.rest))

NextMessages == DropResult \/ CallNextFrame \/ CallDecrypt \/ CallOnRemainder

SpecMessages == Init /\ [][NextMessages]_vars

\* the last call, made on the first n telegrams followed by more, returned
\* what r, the call on the first n alone, returns, with the telegrams that
\* follow appended to the remainder
ExtendsPrefix(r, n) ==
  r.kind = "Ok" =>
    /\ out.kind = "Ok"
    /\ out.val = r.val
    /\ out.rest = r.rest \o Drop(bytes, n)

\* the ways to cut n telegrams into messages: the lengths of the messages
RECURSIVE Cuts(_)
Cuts(n) ==
  IF n = 0 THEN { <<>> }
  ELSE UNION { { <<m>> \o c : c \in Cuts(n - m) } : m \in 1..n }

\* every message of the cut is complete: a call on it alone succeeds and
\* leaves nothing
RECURSIVE AllComplete(_, _)
AllComplete(ts, cut) ==
  \/ cut = <<>>
  \/ LET Whole(r) == r.kind = "Ok" /\ r.rest = <<>>
     IN /\ Whole(CallOn(op, Take(ts, cut[1])))
        /\ AllComplete(Drop(ts, cut[1]), Tail(cut))

\* calling again and again on the remainder gives the payloads of the
\* messages of the cut in order and ends with nothing left
RECURSIVE Drained(_, _)
Drained(ts, cut) ==
  IF cut = <<>> THEN ts = <<>>
  ELSE LET Same(r, alone) ==
             /\ r.kind = "Ok"
             /\ r.val = alone.val
             /\ r.rest = Drop(ts, cut[1])
             /\ Drained(r.rest, Tail(cut))
       IN Same(CallOn(op, ts), CallOn(op, Take(ts, cut[1])))

(***************************************************************************)
(* C24: the reassembly keeps nothing between calls and looks at no         *)
(* telegram after the first last-segment telegram.  If a call on the first *)
(* n telegrams returns (R, p), the call on them followed by any telegrams  *)
(* X returns (R followed by X, p); and when the telegrams are k complete   *)
(* messages one after the other, calling on the remainder again and again  *)
(* yields the k payloads in order, each call counting segments from 0, and *)
(* ends with nothing left.                                                 *)
(***************************************************************************)
C24_NoStateBetweenCalls ==
  op \in {"MBusDataLinkLayer::next_frame", "Dlms::decrypt"} =>
    /\ \A n \in 0..Len(bytes) : ExtendsPrefix(CallOn(op, Take(bytes, n)), n)
    /\ \A cut \in Cuts(Len(bytes)) :
         AllComplete(bytes, cut) => Drained(bytes, cut)

\* two segmented messages in one buffer: the call returned the first and
\* left the second, whose segments count from 0 again and which a call on
\* the remainder returns, leaving nothing
C24_Witness ==
  /\ op = "MBusDataLinkLayer::next_frame"
  /\ Len(bytes) = 4
  /\ bytes[1].control_information = 0
  /\ bytes[2].control_information = 17
  /\ bytes[3].control_information = 0
  /\ bytes[4].control_information = 17
  /\ out.kind = "Ok"
  /\ out.rest = Drop(bytes, 2)
  /\ MBusNextFrame(out.rest).kind = "Ok"
  /\ MBusNextFrame(out.rest).rest = <<>>

====
